---- MODULE Spec2Model ----
(***************************************************************************)
(* Task REST API: validateTask middleware, the four task controllers and   *)
(* the task table they drive through the ORM client.                       *)
(*                                                                         *)
(* JavaScript values are records tagged with their type t, the payload in  *)
(* a field of its own per type; a JavaScript string is the sequence of its *)
(* characters, so that trim, parseInt and Date parsing are computed        *)
(* character by character.                                                 *)
(***************************************************************************)
EXTENDS Integers, Sequences, FiniteSets, TLC

VARIABLES tasks, nextId, pc, req, res, trace, storeCalls, validatedTaskData,
          clients, proc

vars == <<tasks, nextId, pc, req, res, trace, storeCalls, validatedTaskData,
          clients, proc>>

(***************************************************************************)
(* Bounds of the model.                                                    *)
(***************************************************************************)
\* Number of identifiers the store hands out in one run.
MaxId == 2
\* Number of requests in flight at once.
MaxClients == 2
\* Number of times shutdown is called in one run.
MaxShutdowns == 2
\* Number of connections the listener holds open at once.
MaxConns == 1

(***************************************************************************)
(* JavaScript values.                                                      *)
(***************************************************************************)
Undefined == [t |-> "undefined"]
Null == [t |-> "null"]
NaN == [t |-> "NaN"]
Str(s) == [t |-> "string", s |-> s]
Num(n) == [t |-> "number", n |-> n]
Bool(b) == [t |-> "boolean", b |-> b]
Arr(a) == [t |-> "array", a |-> a]

\* typeof x
TypeOf(x) ==
    CASE x.t = "undefined" -> "undefined"
      [] x.t = "string" -> "string"
      [] x.t \in {"number", "NaN"} -> "number"
      [] x.t = "boolean" -> "boolean"
      [] OTHER -> "object"

\* ToBoolean(x): the test applied by !x, x && y, x || y, x ? a : b and if (x)
Truthy(x) ==
    CASE x.t \in {"undefined", "null", "NaN"} -> FALSE
      [] x.t = "string" -> x.s # <<>>
      [] x.t = "number" -> x.n # 0
      [] x.t = "boolean" -> x.b
      [] OTHER -> TRUE

\* SameValueZero, the comparison of Array.prototype.includes: primitives by
\* value, objects by reference (an array of the request never is the array
\* held by a constant of the program).
SameValueZero(a, b) ==
    /\ a.t = b.t
    /\ CASE a.t = "string" -> a.s = b.s
         [] a.t = "number" -> a.n = b.n
         [] a.t = "boolean" -> a.b = b.b
         [] a.t \in {"undefined", "null", "NaN"} -> TRUE
         [] OTHER -> FALSE

\* arr.includes(x), arr being a sequence of values
Includes(arr, x) == \E i \in 1..Len(arr) : SameValueZero(arr[i], x)

(***************************************************************************)
(* Characters.  A character is a TLA+ string: the character itself for     *)
(* printable ASCII, "\t" "\n" "\f" "\r" for those four, and the code point *)
(* ("U+0001", "U+000B", "U+007F", "U+00A0") for every other character.     *)
(***************************************************************************)
\* LineTerminator of ECMAScript
LineTerminator == {"\n", "\r", "U+2028", "U+2029"}

\* WhiteSpace and LineTerminator of ECMAScript: what String.prototype.trim
\* removes and parseInt skips
WhiteSpace ==
    {" ", "\t", "\f", "U+000B", "U+00A0", "U+1680", "U+2000",
     "U+2001", "U+2002", "U+2003", "U+2004", "U+2005", "U+2006", "U+2007",
     "U+2008", "U+2009", "U+200A", "U+202F", "U+205F", "U+3000", "U+FEFF"}
    \cup LineTerminator

Digits == <<"0", "1", "2", "3", "4", "5", "6", "7", "8", "9">>

UpperCase ==
    <<"A", "B", "C", "D", "E", "F", "G", "H", "I", "J", "K", "L", "M",
      "N", "O", "P", "Q", "R", "S", "T", "U", "V", "W", "X", "Y", "Z">>

LowerCase ==
    <<"a", "b", "c", "d", "e", "f", "g", "h", "i", "j", "k", "l", "m",
      "n", "o", "p", "q", "r", "s", "t", "u", "v", "w", "x", "y", "z">>

IsDigit(c) == \E i \in 1..10 : Digits[i] = c

DigitValue(c) == (CHOOSE i \in 1..10 : Digits[i] = c) - 1

\* the characters before "A" in code point order: the control characters,
\* the space, the punctuation from "!" to "@" and the digits
BelowA ==
    {"U+0000", "U+0001", "U+0002", "U+0003", "U+0004", "U+0005", "U+0006",
     "U+0007", "U+0008", "\t", "\n", "U+000B", "\f", "\r", "U+000E", "U+000F",
     "U+0010", "U+0011", "U+0012", "U+0013", "U+0014", "U+0015", "U+0016",
     "U+0017", "U+0018", "U+0019", "U+001A", "U+001B", "U+001C", "U+001D",
     "U+001E", "U+001F",
     " ", "!", "\"", "#", "$", "%", "&", "'",
     "(", ")", "*", "+", ",", "-", ".", "/", ":", ";", "<", "=", ">", "?", "@"}
    \cup {Digits[i] : i \in 1..10}

\* c | 0x20 on a letter
AsciiAlphaToLower(c) ==
    IF \E i \in 1..26 : UpperCase[i] = c
    THEN LowerCase[CHOOSE i \in 1..26 : UpperCase[i] = c]
    ELSE c

\* the first position from i on whose character is not in S, Len(s) + 1
\* when there is none
RECURSIVE FirstNotIn(_, _, _)
FirstNotIn(s, i, S) ==
    IF i <= Len(s) /\ s[i] \in S THEN FirstNotIn(s, i + 1, S) ELSE i

\* the first position from i on whose character is in S
RECURSIVE FirstIn(_, _, _)
FirstIn(s, i, S) ==
    IF i <= Len(s) /\ s[i] \notin S THEN FirstIn(s, i + 1, S) ELSE i

(***************************************************************************)
(* String.prototype.trim                                                   *)
(***************************************************************************)
RECURSIVE TrimStart(_)
TrimStart(s) ==
    IF s # <<>> /\ Head(s) \in WhiteSpace THEN TrimStart(Tail(s)) ELSE s

RECURSIVE TrimEnd(_)
TrimEnd(s) ==
    IF s # <<>> /\ s[Len(s)] \in WhiteSpace
    THEN TrimEnd(SubSeq(s, 1, Len(s) - 1))
    ELSE s

Trim(s) == TrimEnd(TrimStart(s))

(***************************************************************************)
(* ToString(x) of a value of the model; a number of the model is an        *)
(* integer.                                                                *)
(***************************************************************************)
RECURSIVE NatToString(_)
NatToString(n) ==
    IF n < 10 THEN <<Digits[n + 1]>>
    ELSE NatToString(n \div 10) \o <<Digits[(n % 10) + 1]>>

NumberToString(n) == IF n < 0 THEN <<"-">> \o NatToString(0 - n) ELSE NatToString(n)

RECURSIVE ToStr(_)
RECURSIVE Join(_, _)
\* Array.prototype.join(","): null and undefined elements give ""
Join(a, i) ==
    IF i > Len(a) THEN <<>>
    ELSE (IF i > 1 THEN <<",">> ELSE <<>>)
         \o (IF a[i].t \in {"undefined", "null"} THEN <<>> ELSE ToStr(a[i]))
         \o Join(a, i + 1)

ToStr(x) ==
    CASE x.t = "string" -> x.s
      [] x.t = "number" -> NumberToString(x.n)
      [] x.t = "NaN" -> <<"N", "a", "N">>
      [] x.t = "boolean" -> IF x.b THEN <<"t", "r", "u", "e">>
                            ELSE <<"f", "a", "l", "s", "e">>
      [] x.t = "undefined" -> <<"u", "n", "d", "e", "f", "i", "n", "e", "d">>
      [] x.t = "null" -> <<"n", "u", "l", "l">>
      [] x.t = "array" -> Join(x.a, 1)
      [] OTHER -> <<"[", "o", "b", "j", "e", "c", "t", " ", "O", "b", "j", "e", "c", "t", "]">>

(***************************************************************************)
(* parseInt(x), radix omitted: x is converted to a string, leading white   *)
(* space is skipped, an optional sign is read, then 0x or 0X makes the     *)
(* radix 16, and the longest run of digits of the radix is the value; NaN  *)
(* when that run is empty.                                                 *)
(***************************************************************************)
HexDigits == <<"a", "b", "c", "d", "e", "f">>

IsHexDigit(c) == IsDigit(c) \/ \E i \in 1..6 : HexDigits[i] = AsciiAlphaToLower(c)

HexValue(c) ==
    IF IsDigit(c) THEN DigitValue(c)
    ELSE 9 + (CHOOSE i \in 1..6 : HexDigits[i] = AsciiAlphaToLower(c))

RECURSIVE DigitPrefix(_, _)
\* the value of the longest digit prefix of s, acc being the value read so far
DigitPrefix(s, acc) ==
    IF s # <<>> /\ IsDigit(Head(s))
    THEN DigitPrefix(Tail(s), 10 * acc + DigitValue(Head(s)))
    ELSE acc

RECURSIVE HexPrefix(_, _)
HexPrefix(s, acc) ==
    IF s # <<>> /\ IsHexDigit(Head(s))
    THEN HexPrefix(Tail(s), 16 * acc + HexValue(Head(s)))
    ELSE acc

ParseIntString(s) ==
    LET t == TrimStart(s)
        signed == t # <<>> /\ Head(t) \in {"-", "+"}
        unsigned == IF signed THEN Tail(t) ELSE t
        hex == Len(unsigned) >= 2 /\ unsigned[1] = "0" /\ unsigned[2] \in {"x", "X"}
        body == IF hex THEN SubSeq(unsigned, 3, Len(unsigned)) ELSE unsigned
        empty == body = <<>> \/ (IF hex THEN ~IsHexDigit(Head(body))
                                 ELSE ~IsDigit(Head(body)))
        mag == IF hex THEN HexPrefix(body, 0) ELSE DigitPrefix(body, 0)
    IN  IF empty THEN NaN
        ELSE IF signed /\ Head(t) = "-" THEN Num(0 - mag)
        ELSE Num(mag)

ParseInt(x) == ParseIntString(ToStr(x))

IsNaN(x) == x.t = "NaN"
IsUndefined(x) == x.t = "undefined"
IsNull(x) == x.t = "null"

(***************************************************************************)
(* Date.  An instant is the day it falls on, counted from 1970-01-01, and  *)
(* the milliseconds since the start of that day, in UTC; the process runs  *)
(* in UTC, so that local time is UTC.                                      *)
(***************************************************************************)
MsPerDay == 24 * 60 * 60 * 1000

DateAt(day, ms) == [t |-> "Date", day |-> day, msOfDay |-> ms]

\* the instant ms milliseconds after 1970-01-01T00:00:00Z
DateOf(ms) == DateAt(ms \div MsPerDay, ms % MsPerDay)

InvalidDate == [t |-> "InvalidDate"]

\* a < b, a <= b on instants
Earlier(a, b) == a.day < b.day \/ (a.day = b.day /\ a.msOfDay < b.msOfDay)

NotLater(a, b) == a.day < b.day \/ (a.day = b.day /\ a.msOfDay <= b.msOfDay)

\* TimeClip: an instant further than 100,000,000 days from the epoch is no
\* valid Date
TimeClip(day, ms) ==
    IF \/ day \in (0 - 100000000)..(100000000 - 1)
       \/ (day = 100000000 /\ ms = 0)
    THEN DateAt(day, ms)
    ELSE InvalidDate

\* days between 1970-01-01 and the civil date y-m-d
DaysFromCivil(y, m, d) ==
    LET yy == IF m <= 2 THEN y - 1 ELSE y
        era == yy \div 400
        yoe == yy - era * 400
        mp == IF m > 2 THEN m - 3 ELSE m + 9
        doy == (153 * mp + 2) \div 5 + d - 1
        doe == yoe * 365 + yoe \div 4 - yoe \div 100 + doy
    IN  era * 146097 + doe - 719468

(***************************************************************************)
(* new Date(string): the date parser of V8.  The string is cut in tokens;  *)
(* the ES5 form (YYYY[-MM[-DD]][THH:mm[:ss[.sss]][Z|+HH:mm]]) is read      *)
(* first, and what it does not take goes to the legacy parser.             *)
(***************************************************************************)
kNone == 2147483647

Token(tag, n, length, c, type, value) ==
    [tag |-> tag, n |-> n, length |-> length, c |-> c, type |-> type, value |-> value]

EndOfInput == Token("end", 0, 0, "", "", 0)

\* KeywordTable: the first three characters of a word, in lower case
Keyword(a, b, c, type, value) == [pre |-> <<a, b, c>>, type |-> type, value |-> value]

KeywordTable ==
    << Keyword("j", "a", "n", "MONTH_NAME", 1),
       Keyword("f", "e", "b", "MONTH_NAME", 2),
       Keyword("m", "a", "r", "MONTH_NAME", 3),
       Keyword("a", "p", "r", "MONTH_NAME", 4),
       Keyword("m", "a", "y", "MONTH_NAME", 5),
       Keyword("j", "u", "n", "MONTH_NAME", 6),
       Keyword("j", "u", "l", "MONTH_NAME", 7),
       Keyword("a", "u", "g", "MONTH_NAME", 8),
       Keyword("s", "e", "p", "MONTH_NAME", 9),
       Keyword("o", "c", "t", "MONTH_NAME", 10),
       Keyword("n", "o", "v", "MONTH_NAME", 11),
       Keyword("d", "e", "c", "MONTH_NAME", 12),
       Keyword("a", "m", "", "AM_PM", 0),
       Keyword("p", "m", "", "AM_PM", 12),
       Keyword("u", "t", "", "TIME_ZONE_NAME", 0),
       Keyword("u", "t", "c", "TIME_ZONE_NAME", 0),
       Keyword("z", "", "", "TIME_ZONE_NAME", 0),
       Keyword("g", "m", "t", "TIME_ZONE_NAME", 0),
       Keyword("c", "d", "t", "TIME_ZONE_NAME", 0 - 5),
       Keyword("c", "s", "t", "TIME_ZONE_NAME", 0 - 6),
       Keyword("e", "d", "t", "TIME_ZONE_NAME", 0 - 4),
       Keyword("e", "s", "t", "TIME_ZONE_NAME", 0 - 5),
       Keyword("m", "d", "t", "TIME_ZONE_NAME", 0 - 6),
       Keyword("m", "s", "t", "TIME_ZONE_NAME", 0 - 7),
       Keyword("p", "d", "t", "TIME_ZONE_NAME", 0 - 7),
       Keyword("p", "s", "t", "TIME_ZONE_NAME", 0 - 8),
       Keyword("t", "", "", "TIME_SEPARATOR", 0) >>

\* KeywordTable::Lookup: a word longer than the keyword is a month name only
Lookup(pre, length) ==
    LET hits == {i \in 1..Len(KeywordTable) :
                    /\ KeywordTable[i].pre = pre
                    /\ (length <= 3 \/ KeywordTable[i].type = "MONTH_NAME")}
    IN  IF hits = {} THEN Keyword("", "", "", "INVALID", 0)
        ELSE KeywordTable[CHOOSE i \in hits : \A j \in hits : i <= j]

\* InputReader::SkipParentheses from the "(" at j, balance being the count
\* of open parentheses before it
RECURSIVE ParenEnd(_, _, _)
ParenEnd(s, j, balance) ==
    LET b == IF s[j] = ")" THEN balance - 1
             ELSE IF s[j] = "(" THEN balance + 1
             ELSE balance
    IN  IF b > 0 /\ j + 1 <= Len(s) THEN ParenEnd(s, j + 1, b) ELSE j + 1

\* InputReader: the character read past the end of the buffer is 0, and
\* IsEnd() tests the character read against 0, so U+0000 in the string is
\* the end of the input for the tokenizer and for SkipParentheses
InputReader(s) == SubSeq(s, 1, FirstIn(s, 1, {"U+0000"}) - 1)

\* DateStringTokenizer::Scan at position i of the input: the token and the
\* position after it.  A number keeps nine significant digits; its length counts
\* every digit read.  A word is a run of characters from "A" on that are no
\* white space; a line terminator is no white space there, so that U+2028
\* and U+2029 are characters of a word.  A character before "A" that is
\* none of the above is skipped as an unknown token.  The input s is what
\* InputReader yields: it holds no U+0000, where the tokenizer sees the end.
Scan(s, i) ==
    IF i > Len(s) THEN [tok |-> EndOfInput, next |-> i]
    ELSE IF IsDigit(s[i])
    THEN LET z == FirstNotIn(s, i, {"0"})
             e == FirstNotIn(s, z, {Digits[k] : k \in 1..10})
             last == IF e - 1 > z + 8 THEN z + 8 ELSE e - 1
         IN  [tok |-> Token("number", DigitPrefix(SubSeq(s, z, last), 0), e - i, "", "", 0),
              next |-> e]
    ELSE IF s[i] \in {":", "-", "+", ".", ")"}
    THEN [tok |-> Token("symbol", 0, 1, s[i], "", 0), next |-> i + 1]
    ELSE IF s[i] \notin BelowA /\ s[i] \notin WhiteSpace \ LineTerminator
    THEN LET e == FirstIn(s, i, BelowA \cup (WhiteSpace \ LineTerminator))
             pre == [k \in 1..3 |-> IF i + k - 1 < e THEN AsciiAlphaToLower(s[i + k - 1])
                                    ELSE ""]
             found == Lookup(pre, e - i)
         IN  [tok |-> Token("keyword", 0, e - i, "", found.type, found.value), next |-> e]
    ELSE IF s[i] \in WhiteSpace
    THEN [tok |-> Token("whitespace", 0, 1, "", "", 0), next |-> i + 1]
    ELSE IF s[i] = "("
    THEN [tok |-> Token("unknown", 0, 0, "", "", 0), next |-> ParenEnd(s, i, 0)]
    ELSE [tok |-> Token("unknown", 0, 0, "", "", 0), next |-> i + 1]

RECURSIVE Tokens(_, _)
Tokens(s, i) ==
    IF i > Len(s) THEN <<>>
    ELSE LET r == Scan(s, i) IN <<r.tok>> \o Tokens(s, r.next)

\* scanner->Peek() with the scanner before the i-th token
Peek(ts, i) == IF i > Len(ts) THEN EndOfInput ELSE ts[i]

IsNumber(tok) == tok.tag = "number"
IsFixedNumber(tok, length) == tok.tag = "number" /\ tok.length = length
IsSymbol(tok, c) == tok.tag = "symbol" /\ tok.c = c
IsAsciiSign(tok) == tok.tag = "symbol" /\ tok.c \in {"+", "-"}
AsciiSign(tok) == IF tok.c = "+" THEN 1 ELSE 0 - 1
IsKeywordType(tok, type) == tok.tag = "keyword" /\ tok.type = type
IsKeywordZ(tok) == IsKeywordType(tok, "TIME_ZONE_NAME") /\ tok.length = 1

\* ReadMilliseconds: the first three digits of the fraction
RECURSIVE Pow10(_)
Pow10(k) == IF k = 0 THEN 1 ELSE 10 * Pow10(k - 1)

ReadMilliseconds(tok) ==
    LET length == IF tok.length > 9 THEN 9 ELSE tok.length
    IN  IF tok.length = 1 THEN tok.n * 100
        ELSE IF tok.length = 2 THEN tok.n * 10
        ELSE IF tok.length > 3 THEN tok.n \div Pow10(length - 3)
        ELSE tok.n

\* DayComposer, TimeComposer and TimeZoneComposer before anything is read
Composers ==
    [day |-> <<>>, namedMonth |-> kNone, isIsoDate |-> FALSE,
     time |-> <<>>, hourOffset |-> kNone,
     tzSign |-> kNone, tzHour |-> kNone, tzMinute |-> kNone]

IsMinute(n) == n \in 0..59
IsSecond(n) == n \in 0..59
IsMillisecond(n) == n \in 0..999
IsHour(n) == n \in 0..23
IsHour12(n) == n \in 0..12
IsMonth(n) == n \in 1..12
IsDay(n) == n \in 1..31

TimeIsExpecting(st, n) ==
    \/ (Len(st.time) = 1 /\ IsMinute(n))
    \/ (Len(st.time) = 2 /\ IsSecond(n))
    \/ (Len(st.time) = 3 /\ IsMillisecond(n))

TzIsExpecting(st, n) == st.tzHour # kNone /\ st.tzMinute = kNone /\ IsMinute(n)

TzIsUTC(st) == st.tzHour = 0 /\ st.tzMinute = 0

\* TimeZoneComposer::Set(offset_in_hours)
TzSet(st, hours) ==
    [st EXCEPT !.tzSign = IF hours < 0 THEN 0 - 1 ELSE 1,
               !.tzHour = IF hours < 0 THEN 0 - hours ELSE hours,
               !.tzMinute = 0]

\* TimeComposer::AddFinal: the slots after n are 0
TimeAddFinal(st, n) ==
    LET t == Append(st.time, n)
    IN  [st EXCEPT !.time = t \o [k \in 1..(4 - Len(t)) |-> 0]]

\* TimeZoneComposer::Write: hour * 3600 + minute * 60 as an unsigned
\* number of 32 bits, in units of four seconds; the product wraps
TzQuarterSeconds(hour, minute) ==
    ((((hour \div 32768) * 900) % 32768) * 32768 + (hour % 32768) * 900
     + minute * 15) % 1073741824

\* DayComposer::Write, TimeComposer::Write, TimeZoneComposer::Write and the
\* instant MakeDate gives; without a time zone the time is local.  An
\* offset above Smi::kMaxValue seconds is no time zone.
WriteDate(st) ==
    IF Len(st.day) < 1 THEN InvalidDate
    ELSE
    LET comp == st.day \o [k \in 1..(3 - Len(st.day)) |-> 1]
        ymd == IF st.namedMonth = kNone
               THEN IF st.isIsoDate \/ ~IsDay(comp[1])
                    THEN [year |-> comp[1], month |-> comp[2], day |-> comp[3]]
                    ELSE [year |-> comp[3], month |-> comp[1], day |-> comp[2]]
               ELSE IF ~IsDay(comp[1])
                    THEN [year |-> comp[1], month |-> st.namedMonth, day |-> comp[2]]
                    ELSE [year |-> comp[2], month |-> st.namedMonth, day |-> comp[1]]
        year == IF st.isIsoDate THEN ymd.year
                ELSE IF ymd.year \in 0..49 THEN ymd.year + 2000
                ELSE IF ymd.year \in 50..99 THEN ymd.year + 1900
                ELSE ymd.year
        time == st.time \o [k \in 1..(4 - Len(st.time)) |-> 0]
        hour == IF st.hourOffset # kNone THEN (time[1] % 12) + st.hourOffset ELSE time[1]
        timeOk == \/ (IsHour(hour) /\ IsMinute(time[2]) /\ IsSecond(time[3])
                      /\ IsMillisecond(time[4]))
                  \/ (hour = 24 /\ time[2] = 0 /\ time[3] = 0 /\ time[4] = 0)
        quarters == TzQuarterSeconds(IF st.tzHour = kNone THEN 0 ELSE st.tzHour,
                                     IF st.tzMinute = kNone THEN 0 ELSE st.tzMinute)
    IN  IF ~IsMonth(ymd.month) \/ ~IsDay(ymd.day) THEN InvalidDate
        ELSE IF st.hourOffset # kNone /\ ~IsHour12(time[1]) THEN InvalidDate
        ELSE IF ~timeOk THEN InvalidDate
        ELSE IF st.tzSign # kNone /\ quarters >= 536870912 THEN InvalidDate
        ELSE IF year > 300000 \/ year < 0 - 300000 THEN InvalidDate
        ELSE
        LET offset == IF st.tzSign = kNone THEN 0 ELSE st.tzSign * 4 * quarters
            local == ((hour * 60 + time[2]) * 60 + time[3]) * 1000 + time[4]
            ms == local - (offset % 86400) * 1000
            day == DaysFromCivil(year, ymd.month, 1) + ymd.day - 1
                   - (offset \div 86400) + (ms \div MsPerDay)
        IN  TimeClip(day, ms % MsPerDay)

\* what ParseES5DateTime returns: the string is no date, or it is read to
\* its end, or the token tok is not taken and the scanner is before the
\* next-th token
ES5Invalid == [kind |-> "invalid", st |-> Composers, tok |-> EndOfInput, next |-> 0]

ES5Unhandled(st, tok, next) == [kind |-> "unhandled", st |-> st, tok |-> tok, next |-> next]

\* a date without time and zone is UTC
ES5Done(st) ==
    LET utc == IF st.tzHour = kNone /\ st.time = <<>> THEN TzSet(st, 0) ELSE st
    IN  [kind |-> "done", st |-> [utc EXCEPT !.isIsoDate = TRUE],
         tok |-> EndOfInput, next |-> 0]

ES5End(ts, i, st) == IF Peek(ts, i).tag # "end" THEN ES5Invalid ELSE ES5Done(st)

\* the optional time zone: Z, +HH:mm, -HH:mm, +HHmm, -HHmm
ES5Zone(ts, i, st) ==
    LET p == Peek(ts, i)
        q == Peek(ts, i + 1)
        r == Peek(ts, i + 3)
        signed == [st EXCEPT !.tzSign = AsciiSign(p)]
    IN  IF IsKeywordZ(p) THEN ES5End(ts, i + 1, TzSet(st, 0))
        ELSE IF ~IsAsciiSign(p) THEN ES5End(ts, i, st)
        ELSE IF IsFixedNumber(q, 4)
        THEN IF ~IsHour(q.n \div 100) \/ ~IsMinute(q.n % 100) THEN ES5Invalid
             ELSE ES5End(ts, i + 2, [signed EXCEPT !.tzHour = q.n \div 100,
                                                   !.tzMinute = q.n % 100])
        ELSE IF ~IsFixedNumber(q, 2) \/ ~IsHour(q.n) THEN ES5Invalid
        ELSE IF ~IsSymbol(Peek(ts, i + 2), ":") THEN ES5Invalid
        ELSE IF ~IsFixedNumber(r, 2) \/ ~IsMinute(r.n) THEN ES5Invalid
        ELSE ES5End(ts, i + 4, [signed EXCEPT !.tzHour = q.n, !.tzMinute = r.n])

\* the optional time: T HH:mm[:ss[.sss]], 24:00:00.000 the one time of hour 24
ES5Time(ts, i, st) ==
    LET p == Peek(ts, i)
        h == Peek(ts, i + 1)
        m == Peek(ts, i + 3)
        sec == Peek(ts, i + 5)
        f == Peek(ts, i + 7)
        is24 == h.n = 24
    IN  IF ~IsKeywordType(p, "TIME_SEPARATOR")
        THEN IF p.tag # "end" THEN ES5Unhandled(st, p, i + 1) ELSE ES5Done(st)
        ELSE IF ~IsFixedNumber(h, 2) \/ h.n \notin 0..24 THEN ES5Invalid
        ELSE IF ~IsSymbol(Peek(ts, i + 2), ":") THEN ES5Invalid
        ELSE IF ~IsFixedNumber(m, 2) \/ ~IsMinute(m.n) \/ (is24 /\ m.n > 0) THEN ES5Invalid
        ELSE IF ~IsSymbol(Peek(ts, i + 4), ":")
        THEN ES5Zone(ts, i + 4, [st EXCEPT !.time = <<h.n, m.n>>])
        ELSE IF ~IsFixedNumber(sec, 2) \/ ~IsSecond(sec.n) \/ (is24 /\ sec.n > 0)
        THEN ES5Invalid
        ELSE IF ~IsSymbol(Peek(ts, i + 6), ".")
        THEN ES5Zone(ts, i + 6, [st EXCEPT !.time = <<h.n, m.n, sec.n>>])
        ELSE IF ~IsNumber(f) \/ (is24 /\ f.n > 0) THEN ES5Invalid
        ELSE ES5Zone(ts, i + 8,
                     [st EXCEPT !.time = <<h.n, m.n, sec.n, ReadMilliseconds(f)>>])

\* the optional -MM and -DD after the year
ES5MonthDay(ts, i, st) ==
    LET m == Peek(ts, i + 1)
        d == Peek(ts, i + 3)
        withMonth == [st EXCEPT !.day = Append(@, m.n)]
    IN  IF ~IsSymbol(Peek(ts, i), "-") THEN ES5Time(ts, i, st)
        ELSE IF ~IsFixedNumber(m, 2) \/ ~IsMonth(m.n) THEN ES5Unhandled(st, m, i + 2)
        ELSE IF ~IsSymbol(Peek(ts, i + 2), "-") THEN ES5Time(ts, i + 2, withMonth)
        ELSE IF ~IsFixedNumber(d, 2) \/ ~IsDay(d.n) THEN ES5Unhandled(withMonth, d, i + 4)
        ELSE ES5Time(ts, i + 4, [withMonth EXCEPT !.day = Append(@, d.n)])

\* DateParser::ParseES5DateTime: the year is four digits, or a sign and six
ParseES5DateTime(ts) ==
    LET sign == Peek(ts, 1)
        year == Peek(ts, 2)
    IN  IF IsAsciiSign(sign)
        THEN IF ~IsFixedNumber(year, 6) THEN ES5Unhandled(Composers, sign, 2)
             ELSE IF AsciiSign(sign) < 0 /\ year.n = 0 THEN ES5Unhandled(Composers, sign, 3)
             ELSE ES5MonthDay(ts, 3, [Composers EXCEPT !.day = <<AsciiSign(sign) * year.n>>])
        ELSE IF IsFixedNumber(sign, 4)
        THEN ES5MonthDay(ts, 2, [Composers EXCEPT !.day = <<sign.n>>])
        ELSE ES5Unhandled(Composers, sign, 2)

\* the loop of DateParser::Parse over the tokens ParseES5DateTime left: tok
\* is the token at hand, the scanner is before the next-th token,
\* hasReadNumber as in the code
RECURSIVE Legacy(_, _, _, _, _)
Legacy(ts, tok, next, st, hasReadNumber) ==
    LET p == Peek(ts, next)
        Continue(i, st2, read) == Legacy(ts, Peek(ts, i), i + 1, st2, read)
    IN
    IF tok.tag = "end" THEN WriteDate(st)
    ELSE IF IsNumber(tok)
    THEN LET n == tok.n
             dot == IsSymbol(p, ".")
             j == IF dot THEN next + 1 ELSE next
             after == Peek(ts, j)
         IN  IF IsSymbol(p, ":")
             THEN IF IsSymbol(Peek(ts, next + 1), ":")
                  THEN IF st.time # <<>> THEN InvalidDate
                       ELSE Continue(next + 2, [st EXCEPT !.time = <<n, 0>>], TRUE)
                  ELSE IF Len(st.time) >= 4 THEN InvalidDate
                  ELSE Continue(IF IsSymbol(Peek(ts, next + 1), ".") THEN next + 2
                                ELSE next + 1,
                                [st EXCEPT !.time = Append(@, n)], TRUE)
             ELSE IF dot /\ TimeIsExpecting(st, n)
             THEN IF ~IsNumber(after) THEN InvalidDate
                  ELSE Continue(j + 1,
                                TimeAddFinal([st EXCEPT !.time = Append(@, n)],
                                             ReadMilliseconds(after)),
                                TRUE)
             ELSE IF TzIsExpecting(st, n)
             THEN Continue(j, [st EXCEPT !.tzMinute = n], TRUE)
             ELSE IF TimeIsExpecting(st, n)
             THEN IF ~(after.tag \in {"end", "whitespace"} \/ IsKeywordZ(after)
                       \/ IsAsciiSign(after))
                  THEN InvalidDate
                  ELSE Continue(j, TimeAddFinal(st, n), TRUE)
             ELSE IF Len(st.day) >= 3 THEN InvalidDate
             ELSE Continue(IF IsSymbol(after, "-") THEN j + 1 ELSE j,
                           [st EXCEPT !.day = Append(@, n)], TRUE)
    ELSE IF tok.tag = "keyword"
    THEN IF tok.type = "AM_PM" /\ st.time # <<>>
         THEN Continue(next, [st EXCEPT !.hourOffset = tok.value], hasReadNumber)
         ELSE IF tok.type = "MONTH_NAME"
         THEN Continue(IF IsSymbol(p, "-") THEN next + 1 ELSE next,
                       [st EXCEPT !.namedMonth = tok.value], hasReadNumber)
         ELSE IF tok.type = "TIME_ZONE_NAME" /\ hasReadNumber
         THEN Continue(next, TzSet(st, tok.value), hasReadNumber)
         ELSE IF hasReadNumber \/ IsNumber(p) THEN InvalidDate
         ELSE Continue(next, st, hasReadNumber)
    ELSE IF IsAsciiSign(tok) /\ (TzIsUTC(st) \/ st.time # <<>>)
    THEN LET numbered == IsNumber(p)
             n == IF numbered THEN p.n ELSE 0
             length == IF numbered THEN p.length ELSE 0
             j == IF numbered THEN next + 1 ELSE next
             signed == [st EXCEPT !.tzSign = AsciiSign(tok)]
         IN  IF IsSymbol(Peek(ts, j), ":")
             THEN Continue(j, [signed EXCEPT !.tzHour = n, !.tzMinute = kNone], TRUE)
             ELSE IF length \in {1, 2}
             THEN Continue(j, [signed EXCEPT !.tzHour = n, !.tzMinute = 0], TRUE)
             ELSE IF length \in {3, 4}
             THEN Continue(j, [signed EXCEPT !.tzHour = n \div 100,
                                             !.tzMinute = n % 100], TRUE)
             ELSE InvalidDate
    ELSE IF (IsAsciiSign(tok) \/ IsSymbol(tok, ")")) /\ hasReadNumber THEN InvalidDate
    ELSE Continue(next, st, hasReadNumber)

\* DateParser::Parse once ParseES5DateTime has returned es5: the date is
\* written, or the legacy parser goes on from the token that was not taken
ParseRest(ts, es5) ==
    IF es5.kind = "invalid" THEN InvalidDate
    ELSE IF es5.kind = "done" THEN WriteDate(es5.st)
    ELSE Legacy(ts, es5.tok, es5.next, es5.st, es5.st.day # <<>>)

ParseTokens(ts) == ParseRest(ts, ParseES5DateTime(ts))

\* DateParser::Parse: the tokens up to the end of the input
ParseDate(s) == ParseTokens(Tokens(InputReader(s), 1))

(***************************************************************************)
(* new Date(x): a string is parsed, an array is converted to a string and  *)
(* parsed, any other value is converted to the number of milliseconds.     *)
(* The date strings of the requests of the model are parsed once.          *)
(***************************************************************************)
NotADate == Str(<<"a", "b", "c">>)
\* 1970-01-02T23:59:59Z and 1970-01-03 (read as 1970-01-03T00:00:00Z)
Day2End ==
    Str(<<"1", "9", "7", "0", "-", "0", "1", "-", "0", "2",
          "T", "2", "3", ":", "5", "9", ":", "5", "9", "Z">>)
Day3 == Str(<<"1", "9", "7", "0", "-", "0", "1", "-", "0", "3">>)
\* the instant of Day3, as the end of the day before
Day2Midnight ==
    Str(<<"1", "9", "7", "0", "-", "0", "1", "-", "0", "2",
          "T", "2", "4", ":", "0", "0", ":", "0", "0", "Z">>)
\* a day no month has
Day32 == Str(<<"1", "9", "7", "0", "-", "0", "1", "-", "3", "2">>)
\* 2024-02-29T12:00:00+02:00
LeapDay ==
    Str(<<"2", "0", "2", "4", "-", "0", "2", "-", "2", "9", "T", "1", "2", ":",
          "0", "0", ":", "0", "0", "+", "0", "2", ":", "0", "0">>)
DateStrings == {NotADate.s, Day2End.s, Day3.s, Day2Midnight.s, Day32.s, LeapDay.s}

ParsedDates == [s \in DateStrings |-> ParseDate(s)]

\* Date.parse(s)
DateParse(s) == IF s \in DateStrings THEN ParsedDates[s] ELSE ParseDate(s)

NewDate(x) ==
    CASE x.t \in {"string", "array"} ->
            DateParse(IF x.t = "string" THEN x.s ELSE ToStr(x))
      [] x.t = "number" -> TimeClip(x.n \div MsPerDay, x.n % MsPerDay)
      [] x.t = "boolean" -> DateOf(IF x.b THEN 1 ELSE 0)
      [] x.t = "null" -> DateOf(0)
      [] x.t = "Date" -> x
      [] OTHER -> InvalidDate

\* date.getTime(): NaN for an invalid Date, else the time value, kept as
\* the day and the milliseconds of the day
GetTime(d) ==
    IF d.t = "InvalidDate" THEN NaN
    ELSE [t |-> "number", day |-> d.day, msOfDay |-> d.msOfDay]

(***************************************************************************)
(* utils/constants.js                                                      *)
(***************************************************************************)
TODO == <<"T", "O", "D", "O">>
IN_PROGRESS == <<"I", "N", "_", "P", "R", "O", "G", "R", "E", "S", "S">>
DONE == <<"D", "O", "N", "E">>
LOW == <<"l", "o", "w">>
MEDIUM == <<"m", "e", "d", "i", "u", "m">>
HIGH == <<"h", "i", "g", "h">>
TODAY == <<"t", "o", "d", "a", "y">>
WEEK == <<"w", "e", "e", "k">>
MONTH == <<"m", "o", "n", "t", "h">>
OVERDUE == <<"o", "v", "e", "r", "d", "u", "e">>

\* An object literal: its own enumerable properties in insertion order.
STATUS ==
    << [key |-> "TODO", value |-> Str(TODO)],
       [key |-> "IN_PROGRESS", value |-> Str(IN_PROGRESS)],
       [key |-> "DONE", value |-> Str(DONE)],
       [key |-> "_ALL", value |-> Arr(<<Str(TODO), Str(IN_PROGRESS), Str(DONE)>>)] >>

PRIORITY ==
    << [key |-> "LOW", value |-> Str(LOW)],
       [key |-> "MEDIUM", value |-> Str(MEDIUM)],
       [key |-> "HIGH", value |-> Str(HIGH)],
       [key |-> "_ALL", value |-> Arr(<<Str(LOW), Str(MEDIUM), Str(HIGH)>>)] >>

DATE_FILTERS ==
    << [key |-> "TODAY", value |-> Str(TODAY)],
       [key |-> "WEEK", value |-> Str(WEEK)],
       [key |-> "MONTH", value |-> Str(MONTH)],
       [key |-> "OVERDUE", value |-> Str(OVERDUE)],
       [key |-> "_ALL", value |-> Arr(<<Str(TODAY), Str(WEEK), Str(MONTH), Str(OVERDUE)>>)] >>

\* Object.values(obj)
ObjectValues(obj) == [i \in 1..Len(obj) |-> obj[i].value]

(***************************************************************************)
(* The task table behind prisma.task.  A row is                            *)
(*   [id, title, status, priority, dueDate, createdAt]                     *)
(* with title, status and priority strings, dueDate Null or a Date, and    *)
(* createdAt the position of the row's insertion in the order of           *)
(* insertions (the store's clock read at insertion, which only grows).     *)
(* Identifiers are fresh on every insertion: the n-th insertion gets n.    *)
(*                                                                         *)
(* schema.prisma declares the enumeration Priority with the members LOW,   *)
(* MEDIUM and HIGH, each mapped (@map) to the value "low", "medium",       *)
(* "high" it has in the database, and TaskStatus with members mapped to    *)
(* their own names.  The controllers hand the store the strings of         *)
(* utils/constants.js: "low", "medium", "high".  A client that reads an    *)
(* enumeration argument by its mapped value takes them; a client that      *)
(* reads it by the name of the member refuses them, and the call fails     *)
(* before it reaches the database.  The generated client is not among the  *)
(* files of the repository: which of the two it does is fixed for a run    *)
(* (proc.enumArgs) and both are followed.                                  *)
(***************************************************************************)
EnumArgs == {"mapped", "member"}

\* enum Priority: the names of the members
PriorityMembers ==
    {<<"L", "O", "W">>, <<"M", "E", "D", "I", "U", "M">>, <<"H", "I", "G", "H">>}

\* enum Priority: the values the members are mapped to
PriorityMapped == {<<"l", "o", "w">>, <<"m", "e", "d", "i", "u", "m">>, <<"h", "i", "g", "h">>}

\* the client takes x as a priority argument of a call (data.priority,
\* where.priority); an argument that is undefined is no argument
TakesPriority(enumArgs, x) ==
    \/ IsUndefined(x)
    \/ /\ x.t = "string"
       /\ x.s \in (IF enumArgs = "member" THEN PriorityMembers ELSE PriorityMapped)

\* the row a create inserts: the priority column holds the mapped value
NewRow(id, data) ==
    [id |-> id, title |-> data.title.s, status |-> data.status.s,
     priority |-> data.priority.s, dueDate |-> data.dueDate, createdAt |-> id]

\* what prisma.task.create({ data }) raises: an error when the client
\* refuses the priority of data or the store fails
CreateOutcome(enumArgs, data, fault) ==
    IF fault \/ ~TakesPriority(enumArgs, data.priority) THEN "error" ELSE "ok"

\* prisma.task.create({ data }) of a call with outcome ok: the table after
\* the insertion
TableCreate(table, id, data) ==
    [i \in DOMAIN table \cup {id} |-> IF i = id THEN NewRow(id, data) ELSE table[i]]

\* an update that clears the due date it is not given
RowUpdate_ClearsDueDate(row, data) ==
    [row EXCEPT
        !.title = IF IsUndefined(data.title) THEN @ ELSE data.title.s,
        !.status = IF IsUndefined(data.status) THEN @ ELSE data.status.s,
        !.priority = IF IsUndefined(data.priority) THEN @ ELSE data.priority.s,
        !.dueDate = IF IsUndefined(data.dueDate) THEN Null ELSE data.dueDate]

\* prisma.task.update({ where: { id }, data }): a key whose value is
\* undefined is left alone
RowUpdate(row, data) ==
    [row EXCEPT
        !.title = IF IsUndefined(data.title) THEN @ ELSE data.title.s,
        !.status = IF IsUndefined(data.status) THEN @ ELSE data.status.s,
        !.priority = IF IsUndefined(data.priority) THEN @ ELSE data.priority.s,
        !.dueDate = IF IsUndefined(data.dueDate) THEN @ ELSE data.dueDate]

TableUpdate(table, id, data) == [table EXCEPT ![id] = RowUpdate(@, data)]

\* a delete that takes every row
TableDelete_All(table, id) == [i \in {} |-> table[i]]

\* prisma.task.delete({ where: { id } })
TableDelete(table, id) == [i \in DOMAIN table \ {id} |-> table[i]]

\* a where clause is [status, priority, gte, lte, lt], Undefined where absent;
\* a null dueDate satisfies no comparison
Matches(row, where) ==
    /\ IsUndefined(where.status) \/ row.status = where.status.s
    /\ IsUndefined(where.priority) \/ row.priority = where.priority.s
    /\ IsUndefined(where.gte) \/ (~IsNull(row.dueDate) /\ NotLater(where.gte, row.dueDate))
    /\ IsUndefined(where.lte) \/ (~IsNull(row.dueDate) /\ NotLater(row.dueDate, where.lte))
    /\ IsUndefined(where.lt) \/ (~IsNull(row.dueDate) /\ Earlier(row.dueDate, where.lt))

Matching(table, where) == {i \in DOMAIN table : Matches(table[i], where)}

\* orderBy: [{ dueDate: 'asc' }, { createdAt: 'desc' }]; the sqlite provider
\* puts NULL before every value in ascending order
Before(a, b) ==
    IF IsNull(a.dueDate) /\ IsNull(b.dueDate) THEN a.createdAt > b.createdAt
    ELSE IF IsNull(a.dueDate) THEN TRUE
    ELSE IF IsNull(b.dueDate) THEN FALSE
    ELSE IF a.dueDate # b.dueDate THEN Earlier(a.dueDate, b.dueDate)
    ELSE a.createdAt > b.createdAt

RECURSIVE Ordered(_, _)
\* the rows of table with identifiers in S, in the order of orderBy
Ordered(table, S) ==
    IF S = {} THEN <<>>
    ELSE LET first == CHOOSE i \in S : \A j \in S \ {i} : Before(table[i], table[j])
         IN  <<table[first]>> \o Ordered(table, S \ {first})

\* the elements of s after the first skip, at most take of them
Page(s, skip, take) ==
    IF skip >= Len(s) THEN <<>>
    ELSE SubSeq(s, skip + 1, IF skip + take > Len(s) THEN Len(s) ELSE skip + take)

\* prisma.task.findMany({ where, orderBy, skip, take })
FindMany(table, where, skip, take) ==
    Page(Ordered(table, Matching(table, where)), skip, take)

\* a count of the table, not of the matches
Count_All(table, where) == Cardinality(DOMAIN table)

\* prisma.task.count({ where })
Count(table, where) == Cardinality(Matching(table, where))

(***************************************************************************)
(* Requests and responses.                                                 *)
(***************************************************************************)
\* req.body after express.json(): absent (req.body undefined) when the
\* request carries no JSON body, else the four fields the handlers read
NoBody ==
    [present |-> FALSE, title |-> Undefined, status |-> Undefined,
     priority |-> Undefined, dueDate |-> Undefined]

Body(title, status, priority, dueDate) ==
    [present |-> TRUE, title |-> title, status |-> status,
     priority |-> priority, dueDate |-> dueDate]

\* req.query of GET /tasks
NoQuery ==
    [status |-> Undefined, priority |-> Undefined, dateFilter |-> Undefined,
     page |-> Undefined, limit |-> Undefined]

\* now: the instant new Date() returns at line 90; later: the instant the
\* second new Date() returns in the overdue case
NoReq == [method |-> "none", id |-> 0, body |-> NoBody, query |-> NoQuery,
          now |-> DateOf(0), later |-> DateOf(0)]

Request(method, id, body, query, now, later) ==
    [method |-> method, id |-> id, body |-> body, query |-> query,
     now |-> now, later |-> later]

\* what res.status(..).json(..) or res.status(..).end() has sent; sent counts
\* the responses written for the request; a key the body does not carry is
\* Undefined (validOptions, receivedValue), "" (error, field) or <<>>
NoRes ==
    [sent |-> 0, status |-> 0, json |-> FALSE, success |-> FALSE, error |-> "",
     field |-> "", validOptions |-> Undefined, receivedValue |-> Undefined,
     data |-> <<>>, pagination |-> <<>>]

Failure(status, error, field, validOptions, receivedValue) ==
    [sent |-> 1, status |-> status, json |-> TRUE, success |-> FALSE,
     error |-> error, field |-> field, validOptions |-> validOptions,
     receivedValue |-> receivedValue, data |-> <<>>, pagination |-> <<>>]

\* { success: true, data } with data one row or a page of rows
Success(status, data, pagination) ==
    [sent |-> 1, status |-> status, json |-> TRUE, success |-> TRUE,
     error |-> "", field |-> "", validOptions |-> Undefined,
     receivedValue |-> Undefined, data |-> data, pagination |-> pagination]

\* res.status(204).end()
NoContent == [NoRes EXCEPT !.sent = 1, !.status = 204]

(***************************************************************************)
(* middlewares/validateTask.js                                             *)
(***************************************************************************)
\* !title || typeof title !== 'string' || title.trim().length === 0
TitleMissing(title) ==
    ~Truthy(title) \/ TypeOf(title) # "string" \/ Len(Trim(title.s)) = 0

\* the first response validateTask sends for the body, NoRes when it sends
\* none and calls next(); destructuring an absent body throws inside the try
ValidateTaskResponse(body) ==
    LET title == body.title
        status == body.status
        priority == body.priority
        dueDate == body.dueDate
    IN  IF ~body.present
        THEN Failure(500, "Validation failed", "", Undefined, Undefined)
        ELSE IF TitleMissing(title)
        THEN Failure(400, "Title is required and must be a non-empty string",
                     "title", Undefined, Undefined)
        ELSE IF Truthy(status) /\ TypeOf(status) # "string"
        THEN Failure(400, "Status must be a string", "status", Undefined, Undefined)
        ELSE IF Truthy(status) /\ ~Includes(ObjectValues(STATUS), status)
        THEN Failure(400, "Invalid status. Valid options are case-sensitive: ${Object.values(STATUS).join(', ')}",
                     "status", Arr(ObjectValues(STATUS)), status)
        ELSE IF Truthy(priority) /\ TypeOf(priority) # "string"
        THEN Failure(400, "Priority must be a string", "priority", Undefined, Undefined)
        ELSE IF Truthy(priority) /\ ~Includes(ObjectValues(PRIORITY), priority)
        THEN Failure(400, "Invalid priority. Valid options are case-sensitive: ${Object.values(PRIORITY).join(', ')}",
                     "priority", Arr(ObjectValues(PRIORITY)), priority)
        ELSE IF ~IsUndefined(dueDate) /\ ~IsNull(dueDate)
                /\ (TypeOf(dueDate) # "string" \/ IsNaN(GetTime(NewDate(dueDate))))
        THEN Failure(400, "Invalid due date format. Use ISO 8601 format (YYYY-MM-DDTHH:MM:SSZ)",
                     "dueDate", Undefined, Undefined)
        ELSE NoRes

\* req.validatedTaskData: a key that is not set is Undefined
NoData ==
    [title |-> Undefined, status |-> Undefined, priority |-> Undefined,
     dueDate |-> Undefined]

ValidatedData(body) ==
    [title |-> Str(Trim(body.title.s)),
     status |-> IF Truthy(body.status) THEN body.status ELSE Undefined,
     priority |-> IF Truthy(body.priority) THEN body.priority ELSE Undefined,
     dueDate |-> IF IsUndefined(body.dueDate) THEN Undefined
                 ELSE IF Truthy(body.dueDate) THEN NewDate(body.dueDate)
                 ELSE Null]

(***************************************************************************)
(* controllers/tasks.js: createTask                                        *)
(***************************************************************************)
\* !title || typeof title !== 'string' || title.trim().length === 0
CreateTitleMissing(title) ==
    ~Truthy(title) \/ TypeOf(title) # "string" \/ Len(Trim(title.s)) = 0

\* const { title, status = STATUS.TODO, priority = PRIORITY.MEDIUM, dueDate }
\* = req.body: a default replaces undefined only
CreateStatus(body) == IF IsUndefined(body.status) THEN Str(TODO) ELSE body.status

CreatePriority(body) ==
    IF IsUndefined(body.priority) THEN Str(MEDIUM) ELSE body.priority

\* the 400 createTask sends before it calls the store, NoRes when none
CreateTaskRejection(body) ==
    LET title == body.title
        status == CreateStatus(body)
        priority == CreatePriority(body)
    IN  IF CreateTitleMissing(title)
        THEN Failure(400, "Valid title is required", "",
                     Arr(<<Arr(ObjectValues(STATUS)), Arr(ObjectValues(PRIORITY))>>),
                     Undefined)
        ELSE IF Truthy(status) /\ ~Includes(ObjectValues(STATUS), status)
        THEN Failure(400, "Invalid status. Valid options: ${Object.values(STATUS).join(', ')}",
                     "", Arr(ObjectValues(STATUS)), Undefined)
        ELSE IF Truthy(priority) /\ ~Includes(ObjectValues(PRIORITY), priority)
        THEN Failure(400, "Invalid priority. Valid options: ${Object.values(PRIORITY).join(', ')}",
                     "", Arr(ObjectValues(PRIORITY)), Undefined)
        ELSE NoRes

\* createTask without the fallbacks for a status and a priority that are
\* the empty string
CreateData_NoFallback(body) ==
    [title |-> Str(Trim(body.title.s)),
     status |-> IF CreateStatus(body).t = "string" THEN CreateStatus(body)
                ELSE Str(TODO),
     priority |-> IF CreatePriority(body).t = "string" THEN CreatePriority(body)
                  ELSE Str(MEDIUM),
     dueDate |-> IF Truthy(body.dueDate) THEN NewDate(body.dueDate) ELSE Null]

\* the data createTask passes to prisma.task.create
CreateData(body) ==
    [title |-> Str(Trim(body.title.s)),
     status |-> IF Truthy(CreateStatus(body)) THEN CreateStatus(body) ELSE Str(TODO),
     priority |-> IF Truthy(CreatePriority(body)) THEN CreatePriority(body)
                  ELSE Str(MEDIUM),
     dueDate |-> IF Truthy(body.dueDate) THEN NewDate(body.dueDate) ELSE Null]

\* the status createTask answers with when prisma.task.create throws
CreateFailureStatus == 400

(***************************************************************************)
(* controllers/tasks.js: updateTask and deleteTask                         *)
(***************************************************************************)
\* the 400 updateTask sends before it calls the store, NoRes when none
UpdateTaskRejection(body) ==
    IF Truthy(body.status) /\ ~Includes(ObjectValues(STATUS), body.status)
    THEN Failure(400, "Invalid status. Valid options: ${Object.values(STATUS).join(', ')}",
                 "", Arr(ObjectValues(STATUS)), Undefined)
    ELSE IF Truthy(body.priority) /\ ~Includes(ObjectValues(PRIORITY), body.priority)
    THEN Failure(400, "Invalid priority. Valid options: ${Object.values(PRIORITY).join(', ')}",
                 "", Arr(ObjectValues(PRIORITY)), Undefined)
    ELSE NoRes

\* updateTask storing the title as it came
UpdateData_NoTrim(body) ==
    [title |-> IF Truthy(body.title) THEN body.title ELSE Undefined,
     status |-> IF Truthy(body.status) THEN body.status ELSE Undefined,
     priority |-> IF Truthy(body.priority) THEN body.priority ELSE Undefined,
     dueDate |-> IF IsUndefined(body.dueDate) THEN Undefined
                 ELSE IF Truthy(body.dueDate) THEN NewDate(body.dueDate)
                 ELSE Null]

\* the data updateTask passes to prisma.task.update: a spread of a falsy
\* value adds no key
UpdateData(body) ==
    [title |-> IF Truthy(body.title) THEN Str(Trim(body.title.s)) ELSE Undefined,
     status |-> IF Truthy(body.status) THEN body.status ELSE Undefined,
     priority |-> IF Truthy(body.priority) THEN body.priority ELSE Undefined,
     dueDate |-> IF IsUndefined(body.dueDate) THEN Undefined
                 ELSE IF Truthy(body.dueDate) THEN NewDate(body.dueDate)
                 ELSE Null]

\* the catch block of updateTask without the P2025 case
UpdateCatch_No404(code) ==
    Failure(400, "Failed to update task", "", Undefined, Undefined)

\* the response of the catch block of updateTask: error.code P2025 or not
UpdateCatch(code) ==
    IF code = "P2025"
    THEN Failure(404, "Task not found", "", Undefined, Undefined)
    ELSE Failure(400, "Failed to update task", "", Undefined, Undefined)

\* the catch block of deleteTask answering the missing record only
DeleteCatch_OnlyNotFound(code) ==
    IF code = "P2025"
    THEN Failure(404, "Task not found", "", Undefined, Undefined)
    ELSE NoRes

\* the response of the catch block of deleteTask
DeleteCatch(code) ==
    IF code = "P2025"
    THEN Failure(404, "Task not found", "", Undefined, Undefined)
    ELSE Failure(500, "Failed to delete task", "", Undefined, Undefined)

\* what the store raises on update or delete of id: an error when the
\* client refuses the priority of the call (none for delete) or the store
\* fails, else record-not-found for an id that names no row
WriteOutcome(enumArgs, table, id, priority, fault) ==
    IF fault \/ ~TakesPriority(enumArgs, priority) THEN "error"
    ELSE IF id \notin DOMAIN table THEN "P2025"
    ELSE "ok"

(***************************************************************************)
(* controllers/tasks.js: getTasks                                          *)
(***************************************************************************)
\* const { page = 1, limit = 10 } = req.query
QueryPage(query) == IF IsUndefined(query.page) THEN Num(1) ELSE query.page

QueryLimit(query) == IF IsUndefined(query.limit) THEN Num(10) ELSE query.limit

PageNum(query) == ParseInt(QueryPage(query))

LimitNum(query) == ParseInt(QueryLimit(query))

\* isNaN(pageNum) || isNaN(limitNum) || pageNum < 1 || limitNum < 1
BadPagination(query) ==
    \/ IsNaN(PageNum(query))
    \/ IsNaN(LimitNum(query))
    \/ PageNum(query).n < 1
    \/ LimitNum(query).n < 1

\* the 400 getTasks sends before it calls the store, NoRes when none
GetTasksRejection(query) ==
    IF BadPagination(query)
    THEN Failure(400, "Invalid pagination parameters", "", Undefined, Undefined)
    ELSE IF Truthy(query.status) /\ ~Includes(ObjectValues(STATUS), query.status)
    THEN Failure(400, "Invalid status. Valid options: ${Object.values(STATUS).join(', ')}",
                 "", Arr(ObjectValues(STATUS)), Undefined)
    ELSE IF Truthy(query.priority) /\ ~Includes(ObjectValues(PRIORITY), query.priority)
    THEN Failure(400, "Invalid priority. Valid options: ${Object.values(PRIORITY).join(', ')}",
                 "", Arr(ObjectValues(PRIORITY)), Undefined)
    ELSE IF Truthy(query.dateFilter)
            /\ ~Includes(ObjectValues(DATE_FILTERS), query.dateFilter)
    THEN Failure(400, "Invalid date filter. Valid options: ${Object.values(DATE_FILTERS).join(', ')}",
                 "", Arr(ObjectValues(DATE_FILTERS)), Undefined)
    ELSE NoRes

\* setHours(0, 0, 0, 0) and setHours(23, 59, 59, 999) of the Date d, the
\* process running in UTC
StartOfDay(d) == DateAt(d.day, 0)

EndOfDay(d) == DateAt(d.day, MsPerDay - 1)

\* getDay(): 0 is Sunday; 1970-01-01 was a Thursday
GetDay(d) == (d.day + 4) % 7

\* setDate(getDate() - getDay()) then setHours(0, 0, 0, 0)
StartOfWeek(d) == DateAt(d.day - GetDay(d), 0)

\* setDate(getDate() + 6) then setHours(23, 59, 59, 999) of the week's start
EndOfWeek(d) == DateAt(StartOfWeek(d).day + 6, MsPerDay - 1)

\* where.dueDate of a request without a date filter
NoRange == [gte |-> Undefined, lte |-> Undefined, lt |-> Undefined]

\* the today filter counting from the instant of the request
TodayRange_FromNow(now) ==
    [gte |-> now, lte |-> EndOfDay(now), lt |-> Undefined]

\* case DATE_FILTERS.TODAY: { gte: startOfDay, lte: endOfDay }
TodayRange(now) ==
    [gte |-> StartOfDay(now), lte |-> EndOfDay(now), lt |-> Undefined]

\* the overdue filter with the instant of the request included
OverdueRange_Inclusive(later) ==
    [gte |-> Undefined, lte |-> later, lt |-> Undefined]

\* case DATE_FILTERS.OVERDUE: { lt: new Date() }
OverdueRange(later) == [gte |-> Undefined, lte |-> Undefined, lt |-> later]

\* case DATE_FILTERS.WEEK: { gte: startOfWeek, lte: endOfWeek }
WeekRange(now) ==
    [gte |-> StartOfWeek(now), lte |-> EndOfWeek(now), lt |-> Undefined]

\* the switch on dateFilter; the month filter has no case
DueDateRange(query, now, later) ==
    LET f == query.dateFilter
    IN  IF ~Truthy(f) THEN NoRange
        ELSE IF f.s = TODAY THEN TodayRange(now)
        ELSE IF f.s = OVERDUE THEN OverdueRange(later)
        ELSE IF f.s = WEEK THEN WeekRange(now)
        ELSE NoRange

\* the where clause getTasks builds
WhereOf(query, now, later) ==
    LET range == DueDateRange(query, now, later)
    IN  [status |-> IF Truthy(query.status) THEN query.status ELSE Undefined,
         priority |-> IF Truthy(query.priority) THEN query.priority ELSE Undefined,
         gte |-> range.gte,
         lte |-> range.lte,
         lt |-> range.lt]

\* the quotient rounded down
CeilDiv_Floor(total, limit) == total \div limit

\* Math.ceil(total / limitNum), limitNum >= 1
CeilDiv(total, limit) == (total + limit - 1) \div limit

\* the 200 getTasks sends with the page findMany returned and the number
\* count returned
GetTasksSuccess(query, rows, total) ==
    LET pageNum == PageNum(query).n
        limitNum == LimitNum(query).n
    IN  Success(200, rows,
                << [total |-> total, page |-> pageNum, limit |-> limitNum,
                    totalPages |-> CeilDiv(total, limitNum)] >>)

(***************************************************************************)
(* The requests of the model.                                              *)
(***************************************************************************)
GoodTitle == Str(<<" ", "a", " ">>)
OtherTitle == Str(<<"b">>)
LowerTodo == Str(<<"t", "o", "d", "o">>)
UpperHigh == Str(<<"H", "I", "G", "H">>)
\* white space of String.prototype.trim around a title
PaddedTitle == Str(<<"U+FEFF", "a", "\r">>)

TitleValues ==
    {Undefined, Null, Str(<<>>), Str(<<" ", "\t">>), Str(<<"\r", "U+00A0">>), Num(7),
     GoodTitle, PaddedTitle}

StatusValues ==
    {Null, Str(<<>>), LowerTodo, Num(1), Arr(<<Str(DONE)>>), Str(DONE)}

PriorityValues == {Str(<<>>), UpperHigh, Bool(TRUE), Str(HIGH)}

DueDateValues ==
    {Null, Str(<<>>), NotADate, Day32, Num(5), Day3, Day2Midnight}

Bodies ==
    {NoBody}
    \cup {Body(t, Undefined, Undefined, Undefined) : t \in TitleValues}
    \cup {Body(GoodTitle, s, Undefined, Undefined) : s \in StatusValues}
    \cup {Body(GoodTitle, Undefined, p, Undefined) : p \in PriorityValues}
    \cup {Body(GoodTitle, Undefined, Undefined, d) : d \in DueDateValues}
    \cup {Body(Undefined, s, Undefined, Undefined) : s \in {Str(DONE), LowerTodo}}
    \cup {Body(Undefined, Undefined, Undefined, d) : d \in {Null, LeapDay}}
    \cup {Body(OtherTitle, Str(DONE), Str(HIGH), Day2End),
          Body(Str(<<>>), LowerTodo, Undefined, Undefined),
          Body(GoodTitle, LowerTodo, UpperHigh, Undefined),
          Body(GoodTitle, Str(<<>>), UpperHigh, Undefined),
          Body(GoodTitle, Bool(FALSE), UpperHigh, Undefined),
          Body(GoodTitle, Undefined, Bool(TRUE), NotADate)}

\* identifiers a request may name: MaxId + 1 is never handed out
RequestIds == 1..(MaxId + 1)

PageValues ==
    {Str(<<>>), Str(<<"0">>), Str(<<"-", "1">>), Str(<<"a", "b", "c">>),
     Str(<<"5", "a", "b", "c">>), Str(<<"2", ".", "7">>), Str(<<"1">>),
     Str(<<" ", "2">>), Str(<<"0", "x", "2">>),
     Arr(<<Str(<<"2">>), Str(<<"3">>)>>)}

LimitValues == {Str(<<"0">>), Str(<<"x">>), Str(<<"1">>), Str(<<"2">>), Str(<<"1", "x">>)}

Query(status, priority, dateFilter, page, limit) ==
    [status |-> status, priority |-> priority, dateFilter |-> dateFilter,
     page |-> page, limit |-> limit]

PlainQueries ==
    {NoQuery}
    \cup {Query(Undefined, Undefined, Undefined, p, Undefined) : p \in PageValues}
    \cup {Query(Undefined, Undefined, Undefined, p, l) :
            p \in {Undefined, Str(<<"2">>)}, l \in LimitValues}
    \cup {Query(s, Undefined, Undefined, Undefined, Undefined) :
            s \in {Str(DONE), Str(<<"d", "o", "n", "e">>), Str(<<>>)}}
    \cup {Query(Undefined, p, Undefined, Undefined, Undefined) :
            p \in {Str(HIGH), UpperHigh}}
    \cup {Query(Str(DONE), Str(HIGH), Undefined, Undefined, Str(<<"1">>)),
          Query(Str(TODO), Undefined, Undefined, Str(<<"2">>), Str(<<"1">>))}

DatedQueries ==
    {Query(Undefined, Undefined, f, Undefined, Undefined) :
        f \in {Str(TODAY), Str(WEEK), Str(MONTH), Str(OVERDUE),
               Str(<<"n", "o", "w">>), Str(<<>>)}}

\* a date filter beside other filters and paging
CombinedQueries ==
    {Query(Str(DONE), p, f, Undefined, Undefined) :
        p \in {Undefined, Str(HIGH)}, f \in {Str(TODAY), Str(OVERDUE)}}
    \cup {Query(Str(TODO), Undefined, Str(MONTH), Str(<<"2">>), Str(<<"1">>)),
          Query(Undefined, Str(HIGH), Str(MONTH), Undefined, Str(<<"1">>))}

\* instants of new Date() at line 90: 1970-01-02T00:00:05Z and
\* 1970-01-03T12:00:00Z
Nows == {DateAt(1, 5000), DateAt(2, 12 * 3600 * 1000)}

\* the millisecond before 1970-01-02T23:59:58Z and before 1970-01-03T00:00:00Z
CutoffNows == {DateAt(1, MsPerDay - 2001), DateAt(1, MsPerDay - 1)}

\* the instant ms milliseconds after d
After(d, ms) ==
    DateAt(d.day + (d.msOfDay + ms) \div MsPerDay, (d.msOfDay + ms) % MsPerDay)

\* a GET request with the instants its two new Date() calls return
GetRequests ==
    {Request("GET", 0, NoBody, q, DateAt(1, 0), DateAt(1, 0)) : q \in PlainQueries}
    \cup {Request("GET", 0, NoBody, q, now, After(now, 1)) :
            q \in DatedQueries, now \in Nows}
    \cup {Request("GET", 0, NoBody, q, now, After(now, 1)) :
            q \in {Query(Undefined, Undefined, Str(OVERDUE), Undefined, Undefined)},
            now \in CutoffNows}
    \cup {Request("GET", 0, NoBody, q, DateAt(2, 12 * 3600 * 1000),
                  DateAt(2, 12 * 3600 * 1000 + 1)) : q \in CombinedQueries}

\* the requests that are followed when a limiter stops them
LimitedBodies == {NoBody, Body(OtherTitle, Str(DONE), Str(HIGH), Day2End)}

LimitedGetRequests == {Request("GET", 0, NoBody, NoQuery, DateAt(1, 0), DateAt(1, 0))}

\* the data of the writes of the requests that are not followed
OtherBodies ==
    {Body(OtherTitle, Str(DONE), Str(HIGH), Day2End),
     Body(GoodTitle, Undefined, Undefined, Day3),
     Body(GoodTitle, Undefined, Undefined, Undefined)}

OtherUpdateBodies == {Body(OtherTitle, Str(DONE), Str(HIGH), Day2End)}

(***************************************************************************)
(* The limiters.  server.js puts a limiter in front of every route, before *)
(* the body is parsed; routes/tasks.js puts apiLimiter first in the chain  *)
(* of each route.  Both count the requests of a client address over a      *)
(* window of 15 minutes and answer 429 once the count has passed max.  The *)
(* model follows what a limiter reads of its count: "open" while the       *)
(* requests of the window are fewer than RateLimitMax, "full" from then to *)
(* the end of the window.                                                  *)
(***************************************************************************)
RateLimitMax == 100

TooManyRequests == "Too many requests, please try again later"

\* server.js: message { error }, no key success
LimiterResponse ==
    [NoRes EXCEPT !.sent = 1, !.status = 429, !.json = TRUE,
                  !.error = TooManyRequests]

\* routes/tasks.js: message { success: false, error }
ApiLimiterResponse == Failure(429, TooManyRequests, "", Undefined, Undefined)

\* both limiters call next()
Passes(p) == p.limiter = "open" /\ p.apiLimiter = "open"

\* the 429 of the limiter that stops the request, the global one first
Limited(p) == IF p.limiter = "full" THEN LimiterResponse ELSE ApiLimiterResponse

(***************************************************************************)
(* The state machine.  One request is followed through the handlers of its *)
(* route (routes/tasks.js): req, res, trace, storeCalls and pc are its     *)
(* request, its response, the handlers it has entered, the calls of the    *)
(* store that were served for it and its position.  A handler runs without *)
(* interruption up to its await: the limiters, validateTask and the        *)
(* controller up to the call of the store are steps of their own, the      *)
(* store serves the call in one step, and the code after the await, which  *)
(* sends the response, is one step.  While the request is suspended at    *)
(* its await, before the store serves its call and between the answer of   *)
(* the store and the code after the await, the store serves the calls of   *)
(* the requests of other clients (OtherCreate, OtherUpdate, OtherDelete).  *)
(***************************************************************************)
\* a request of the interleaved PATCH runs that has not arrived: its
\* position, what the store answered to its call (outcome and the row
\* returned, with the place of the call among the writes the store has
\* served), and the response
NoClient ==
    [pc |-> "idle", req |-> NoReq, data |-> NoData, outcome |-> "", row |-> <<>>,
     applied |-> 0, res |-> NoRes]

\* the process after app.listen: connected to the store, listening, no
\* shutdown under way, the windows of both limiters open.  calls are the
\* calls of shutdown, handlers the calls of disconnectDB, rejections the
\* rejected promises of disconnectDB whose 'unhandledRejection' event is
\* still to come, timers the forced-exit timers that are armed, fresh the
\* connections that are open and have sent no request yet, conns the
\* connections that are open and idle (they answered a request and are kept
\* alive for the next), busy those with a request that is not answered yet;
\* enumArgs is how the generated client reads an enumeration argument
Running(enumArgs) ==
    [exit |-> "running", calls |-> <<>>, handlers |-> <<>>, rejections |-> 0,
     isConnected |-> TRUE, server |-> "listening", fresh |-> 0, conns |-> 0,
     busy |-> 0,
     timers |-> 0, limiter |-> "open", apiLimiter |-> "open",
     enumArgs |-> enumArgs]

Init ==
    /\ tasks = <<>>
    /\ nextId = 1
    /\ pc = "idle"
    /\ req = NoReq
    /\ res = NoRes
    /\ trace = <<>>
    /\ storeCalls = <<>>
    /\ validatedTaskData = NoData
    /\ clients = [c \in 1..MaxClients |-> NoClient]
    /\ \E enumArgs \in EnumArgs : proc = Running(enumArgs)

\* a call of the store that was served: the rows it returned (the row of a
\* write, the page of findMany) and, for count, the number
Call(op, outcome, rows, n) == [op |-> op, outcome |-> outcome, rows |-> rows, n |-> n]

\* the request r is answered 429
TooMany(r) ==
    /\ ~Passes(proc)
    /\ req' = r
    /\ res' = Limited(proc)
    /\ trace' = IF proc.limiter = "full" THEN <<>> ELSE <<"apiLimiter">>
    /\ pc' = "done"
    /\ UNCHANGED <<tasks, nextId, storeCalls, validatedTaskData, clients, proc>>

\* the handler after validateTask in the route of the request
Controller(r) == IF r.method = "POST" THEN "createTask" ELSE "updateTask"

\* validateTask, reached through the limiters by the request r
ValidateTask(r) ==
    /\ Passes(proc)
    /\ req' = r
    /\ trace' = <<"apiLimiter", "validateTask">>
    /\ LET sent == ValidateTaskResponse(r.body)
       IN  IF sent.sent = 0
           THEN /\ validatedTaskData' = ValidatedData(r.body)
                /\ pc' = Controller(r)
                /\ UNCHANGED res
           ELSE /\ res' = sent
                /\ pc' = "done"
                /\ UNCHANGED validatedTaskData
    /\ UNCHANGED <<tasks, nextId, storeCalls, clients, proc>>

\* router.post('/', apiLimiter, validateTask, createTask) with a body of
\* bodies; the store hands out MaxId identifiers
PostOf(bodies) ==
    /\ pc = "idle"
    /\ nextId <= MaxId
    /\ \/ \E body \in bodies :
             ValidateTask(Request("POST", 0, body, NoQuery, DateOf(0), DateOf(0)))
       \/ \E body \in LimitedBodies :
             TooMany(Request("POST", 0, body, NoQuery, DateOf(0), DateOf(0)))

Post == PostOf(Bodies)

\* router.patch('/:id', apiLimiter, validateTask, updateTask) with a body
\* of bodies
PatchOf(bodies) ==
    /\ pc = "idle"
    /\ \E id \in RequestIds :
          \/ \E body \in bodies :
                ValidateTask(Request("PATCH", id, body, NoQuery, DateOf(0), DateOf(0)))
          \/ \E body \in LimitedBodies :
                TooMany(Request("PATCH", id, body, NoQuery, DateOf(0), DateOf(0)))

Patch == PatchOf(Bodies)

\* createTask up to its await
CreateTask ==
    /\ pc = "createTask"
    /\ trace' = Append(trace, "createTask")
    /\ LET sent == CreateTaskRejection(req.body)
       IN  IF sent.sent # 0
           THEN /\ res' = sent
                /\ pc' = "done"
           ELSE /\ pc' = "create"
                /\ UNCHANGED res
    /\ UNCHANGED <<tasks, nextId, req, storeCalls, validatedTaskData, clients, proc>>

\* the store serves the call prisma.task.create of the request
StoreCreate ==
    /\ pc = "create"
    /\ nextId <= MaxId
    /\ pc' = "resume"
    /\ \E fault \in BOOLEAN :
          IF CreateOutcome(proc.enumArgs, CreateData(req.body), fault) = "error"
          THEN /\ storeCalls' = <<Call("create", "error", <<>>, 0)>>
               /\ UNCHANGED <<tasks, nextId>>
          ELSE /\ tasks' = TableCreate(tasks, nextId, CreateData(req.body))
               /\ nextId' = nextId + 1
               /\ storeCalls' = <<Call("create", "ok", <<tasks'[nextId]>>, 0)>>
    /\ UNCHANGED <<req, res, trace, validatedTaskData, clients, proc>>

\* createTask after its await: the 201 with the task, or the catch
CreateTaskResumes ==
    /\ pc = "resume"
    /\ req.method = "POST"
    /\ pc' = "done"
    /\ res' = IF storeCalls[1].outcome = "ok"
              THEN Success(201, storeCalls[1].rows, <<>>)
              ELSE Failure(CreateFailureStatus, "Failed to create task", "",
                           Undefined, Undefined)
    /\ UNCHANGED <<tasks, nextId, req, trace, storeCalls, validatedTaskData,
                   clients, proc>>

\* updateTask up to its await
UpdateTask ==
    /\ pc = "updateTask"
    /\ trace' = Append(trace, "updateTask")
    /\ LET sent == UpdateTaskRejection(req.body)
       IN  IF sent.sent # 0
           THEN /\ res' = sent
                /\ pc' = "done"
           ELSE /\ pc' = "update"
                /\ UNCHANGED res
    /\ UNCHANGED <<tasks, nextId, req, storeCalls, validatedTaskData, clients, proc>>

\* the store serves the call prisma.task.update of the request
StoreUpdate ==
    /\ pc = "update"
    /\ pc' = "resume"
    /\ \E fault \in BOOLEAN :
          LET outcome == WriteOutcome(proc.enumArgs, tasks, req.id,
                                      UpdateData(req.body).priority, fault)
          IN  IF outcome = "ok"
              THEN /\ tasks' = TableUpdate(tasks, req.id, UpdateData(req.body))
                   /\ storeCalls' = <<Call("update", "ok", <<tasks'[req.id]>>, 0)>>
              ELSE /\ storeCalls' = <<Call("update", outcome, <<>>, 0)>>
                   /\ UNCHANGED tasks
    /\ UNCHANGED <<nextId, req, res, trace, validatedTaskData, clients, proc>>

\* updateTask after its await: res.json of the updated task, or the catch
UpdateTaskResumes ==
    /\ pc = "resume"
    /\ req.method = "PATCH"
    /\ pc' = "done"
    /\ res' = IF storeCalls[1].outcome = "ok"
              THEN Success(200, storeCalls[1].rows, <<>>)
              ELSE UpdateCatch(storeCalls[1].outcome)
    /\ UNCHANGED <<tasks, nextId, req, trace, storeCalls, validatedTaskData,
                   clients, proc>>

\* router.delete('/:id', apiLimiter, deleteTask): deleteTask up to its await
DeleteTask ==
    /\ pc = "idle"
    /\ \E id \in RequestIds :
          LET r == Request("DELETE", id, NoBody, NoQuery, DateOf(0), DateOf(0))
          IN  \/ TooMany(r)
              \/ /\ Passes(proc)
                 /\ req' = r
                 /\ trace' = <<"apiLimiter", "deleteTask">>
                 /\ pc' = "delete"
                 /\ UNCHANGED <<tasks, nextId, res, storeCalls, validatedTaskData,
                                clients, proc>>

\* the store serves the call prisma.task.delete of the request
StoreDelete ==
    /\ pc = "delete"
    /\ pc' = "resume"
    /\ \E fault \in BOOLEAN :
          LET outcome == WriteOutcome(proc.enumArgs, tasks, req.id, Undefined, fault)
          IN  /\ storeCalls' = <<Call("delete", outcome, <<>>, 0)>>
              /\ tasks' = IF outcome = "ok" THEN TableDelete(tasks, req.id) ELSE tasks
    /\ UNCHANGED <<nextId, req, res, trace, validatedTaskData, clients, proc>>

\* deleteTask after its await: the 204, or the catch
DeleteTaskResumes ==
    /\ pc = "resume"
    /\ req.method = "DELETE"
    /\ pc' = "done"
    /\ res' = IF storeCalls[1].outcome = "ok" THEN NoContent
              ELSE DeleteCatch(storeCalls[1].outcome)
    /\ UNCHANGED <<tasks, nextId, req, trace, storeCalls, validatedTaskData,
                   clients, proc>>

\* router.get('/', apiLimiter, getTasks) with a request of requests:
\* getTasks up to its await.  It builds the where clause and calls findMany
\* and count, both before either is served
GetTasksOf(requests) ==
    /\ pc = "idle"
    /\ \/ \E r \in LimitedGetRequests : TooMany(r)
       \/ /\ Passes(proc)
          /\ \E r \in requests :
                /\ req' = r
                /\ trace' = <<"apiLimiter", "getTasks">>
                /\ LET sent == GetTasksRejection(r.query)
                   IN  IF sent.sent # 0
                       THEN /\ res' = sent
                            /\ pc' = "done"
                       ELSE /\ pc' = "reads"
                            /\ UNCHANGED res
          /\ UNCHANGED <<tasks, nextId, storeCalls, validatedTaskData, clients, proc>>

GetTasks == GetTasksOf(GetRequests)

\* the call op of the request was served, and how
Served(calls, op) == \E i \in 1..Len(calls) : calls[i].op = op

Answer(calls, op) == calls[CHOOSE i \in 1..Len(calls) : calls[i].op = op]

\* the store serves the call prisma.task.findMany of the request, with the
\* where clause, skip and take getTasks built; Promise.all resolves when
\* both reads have
StoreFindMany ==
    /\ pc = "reads"
    /\ ~Served(storeCalls, "findMany")
    /\ LET where == WhereOf(req.query, req.now, req.later)
           limitNum == LimitNum(req.query).n
           skip == (PageNum(req.query).n - 1) * limitNum
       IN  /\ TakesPriority(proc.enumArgs, where.priority)
           /\ storeCalls' =
                 Append(storeCalls,
                        Call("findMany", "ok", FindMany(tasks, where, skip, limitNum), 0))
    /\ pc' = IF Served(storeCalls, "count") THEN "resume" ELSE "reads"
    /\ UNCHANGED <<tasks, nextId, req, res, trace, validatedTaskData, clients, proc>>

\* the store serves the call prisma.task.count of the request
StoreCount ==
    /\ pc = "reads"
    /\ ~Served(storeCalls, "count")
    /\ LET where == WhereOf(req.query, req.now, req.later)
       IN  /\ TakesPriority(proc.enumArgs, where.priority)
           /\ storeCalls' =
                 Append(storeCalls, Call("count", "ok", <<>>, Count(tasks, where)))
    /\ pc' = IF Served(storeCalls, "findMany") THEN "resume" ELSE "reads"
    /\ UNCHANGED <<tasks, nextId, req, res, trace, validatedTaskData, clients, proc>>

\* a read of the request fails, the client refusing the priority of the
\* where clause or the store failing: Promise.all rejects as soon as one of
\* the two reads does
StoreFailsRead ==
    /\ pc = "reads"
    /\ \E op \in {"findMany", "count"} :
          /\ ~Served(storeCalls, op)
          /\ storeCalls' = Append(storeCalls, Call(op, "error", <<>>, 0))
    /\ pc' = "resume"
    /\ UNCHANGED <<tasks, nextId, req, res, trace, validatedTaskData, clients, proc>>

\* getTasks after its await: res.json of the page and the pagination, or
\* the catch
GetTasksResumes ==
    /\ pc = "resume"
    /\ req.method = "GET"
    /\ pc' = "done"
    /\ res' = IF \E i \in 1..Len(storeCalls) : storeCalls[i].outcome = "error"
              THEN Failure(500, "Failed to fetch tasks", "", Undefined, Undefined)
              ELSE GetTasksSuccess(req.query, Answer(storeCalls, "findMany").rows,
                                   Answer(storeCalls, "count").n)
    /\ UNCHANGED <<tasks, nextId, req, trace, storeCalls, validatedTaskData,
                   clients, proc>>

\* the response is on the wire and the next request is followed
Finish ==
    /\ pc = "done"
    /\ pc' = "idle"
    /\ req' = NoReq
    /\ res' = NoRes
    /\ trace' = <<>>
    /\ storeCalls' = <<>>
    /\ validatedTaskData' = NoData
    /\ UNCHANGED <<tasks, nextId, clients, proc>>

RequestVars == <<pc, req, res, trace, storeCalls, validatedTaskData, clients>>

\* the request is suspended at its await: the store has not served its
\* call yet, or has and the code after the await has not run
Waiting == pc \in {"create", "update", "delete", "reads", "resume"}

\* the store serves the call prisma.task.create of the createTask of
\* another request; of the MaxId identifiers the store hands out, one is
\* kept for the create of the request that waits
OtherCreate ==
    /\ Waiting
    /\ nextId + (IF pc = "create" THEN 1 ELSE 0) <= MaxId
    /\ \E body \in OtherBodies :
          /\ CreateOutcome(proc.enumArgs, CreateData(body), FALSE) = "ok"
          /\ tasks' = TableCreate(tasks, nextId, CreateData(body))
    /\ nextId' = nextId + 1
    /\ UNCHANGED <<RequestVars, proc>>

\* the store serves the call prisma.task.update of the updateTask of
\* another request
OtherUpdate ==
    /\ Waiting
    /\ \E id \in DOMAIN tasks, body \in OtherUpdateBodies :
          /\ WriteOutcome(proc.enumArgs, tasks, id, UpdateData(body).priority, FALSE) = "ok"
          /\ tasks' = TableUpdate(tasks, id, UpdateData(body))
    /\ UNCHANGED <<nextId, RequestVars, proc>>

\* the store serves the call prisma.task.delete of the deleteTask of
\* another request
OtherDelete ==
    /\ Waiting
    /\ \E id \in DOMAIN tasks : tasks' = TableDelete(tasks, id)
    /\ UNCHANGED <<nextId, RequestVars, proc>>

\* the client sends requests, answered or not, until the counts of both
\* limiters for its address are at max
Burst ==
    /\ pc = "idle"
    /\ proc.limiter = "open"
    /\ proc' = [proc EXCEPT !.limiter = "full", !.apiLimiter = "full"]
    /\ UNCHANGED <<tasks, nextId, RequestVars>>

\* the window of the limiter of server.js ends: the count starts again
LimiterWindowEnds ==
    /\ pc = "idle"
    /\ proc.limiter = "full"
    /\ proc' = [proc EXCEPT !.limiter = "open"]
    /\ UNCHANGED <<tasks, nextId, RequestVars>>

\* the window of apiLimiter ends
ApiLimiterWindowEnds ==
    /\ pc = "idle"
    /\ proc.apiLimiter = "full"
    /\ proc' = [proc EXCEPT !.apiLimiter = "open"]
    /\ UNCHANGED <<tasks, nextId, RequestVars>>

Next ==
    \/ Post
    \/ Patch
    \/ CreateTask
    \/ StoreCreate
    \/ CreateTaskResumes
    \/ UpdateTask
    \/ StoreUpdate
    \/ UpdateTaskResumes
    \/ DeleteTask
    \/ StoreDelete
    \/ DeleteTaskResumes
    \/ Finish
    \/ OtherCreate
    \/ OtherUpdate
    \/ OtherDelete
    \/ Burst
    \/ LimiterWindowEnds
    \/ ApiLimiterWindowEnds

Spec == Init /\ [][Next]_vars

(***************************************************************************)
(* GET /tasks among the writes of other requests.  The two reads of        *)
(* getTasks are two calls of the store, outside any transaction: the store *)
(* serves each in one step, in either order, and serves the writes of      *)
(* other requests before, between and after them.                          *)
(***************************************************************************)
ReadNext ==
    \/ GetTasks
    \/ StoreFindMany
    \/ StoreCount
    \/ StoreFailsRead
    \/ GetTasksResumes
    \/ Finish
    \/ OtherCreate
    \/ OtherUpdate
    \/ OtherDelete
    \/ Burst
    \/ LimiterWindowEnds
    \/ ApiLimiterWindowEnds

ReadSpec == Init /\ [][ReadNext]_vars

(***************************************************************************)
(* The four routes of routes/tasks.js together: the request that is        *)
(* followed is a POST, a PATCH, a DELETE or a GET.  The bodies are one of  *)
(* each outcome of validateTask (no body, a failure of each field, a body  *)
(* it accepts); the GET requests one of each outcome of getTasks.          *)
(***************************************************************************)
ApiBodies ==
    {NoBody,
     Body(Str(<<>>), Undefined, Undefined, Undefined),
     Body(GoodTitle, LowerTodo, Undefined, Undefined),
     Body(GoodTitle, Undefined, UpperHigh, Undefined),
     Body(GoodTitle, Undefined, Undefined, NotADate),
     Body(GoodTitle, Undefined, Undefined, Undefined),
     Body(Num(7), Undefined, Undefined, Undefined),
     Body(GoodTitle, Num(1), Undefined, Undefined),
     Body(GoodTitle, Str(<<>>), UpperHigh, Undefined),
     Body(GoodTitle, Undefined, Undefined, Day3),
     Body(Undefined, Str(DONE), Undefined, Undefined),
     Body(OtherTitle, Str(DONE), Str(HIGH), Day2End)}

ApiGetRequests ==
    {Request("GET", 0, NoBody, q, DateAt(1, 0), DateAt(1, 0)) :
        q \in {NoQuery,
               Query(Undefined, Undefined, Undefined, Str(<<"0">>), Undefined),
               Query(Str(<<"d", "o", "n", "e">>), Undefined, Undefined, Undefined, Undefined),
               Query(Undefined, Str(HIGH), Undefined, Undefined, Undefined),
               Query(Undefined, Undefined, Str(<<"n", "o", "w">>), Undefined, Undefined),
               Query(Undefined, Undefined, Str(OVERDUE), Undefined, Undefined),
               Query(Undefined, Undefined, Undefined, Str(<<"2">>), Str(<<"1">>))}}

ApiPost == PostOf(ApiBodies)

ApiPatch == PatchOf(ApiBodies)

ApiGetTasks == GetTasksOf(ApiGetRequests)

ApiNext ==
    \/ ApiPost
    \/ ApiPatch
    \/ CreateTask
    \/ StoreCreate
    \/ CreateTaskResumes
    \/ UpdateTask
    \/ StoreUpdate
    \/ UpdateTaskResumes
    \/ DeleteTask
    \/ StoreDelete
    \/ DeleteTaskResumes
    \/ ApiGetTasks
    \/ StoreFindMany
    \/ StoreCount
    \/ StoreFailsRead
    \/ GetTasksResumes
    \/ Finish
    \/ OtherCreate
    \/ OtherUpdate
    \/ OtherDelete
    \/ Burst
    \/ LimiterWindowEnds
    \/ ApiLimiterWindowEnds

ApiSpec == Init /\ [][ApiNext]_vars

(***************************************************************************)
(* PATCH requests in flight together, each followed: validateTask and      *)
(* updateTask up to the call of prisma.task.update are one step, the       *)
(* update in the store is one step (the store applies one call at a time), *)
(* and the code after the await, which sends the response, is one step.    *)
(* The table holds one task.                                               *)
(***************************************************************************)
SeedTable ==
    TableCreate(<<>>, 1, CreateData(Body(GoodTitle, Undefined, Undefined, Day2End)))

ConcurrentBodies ==
    {Body(OtherTitle, Str(DONE), Undefined, Undefined),
     Body(Str(<<"c", " ">>), Undefined, Str(HIGH), Null),
     Body(Str(<<"d">>), Str(IN_PROGRESS), Undefined, LeapDay),
     Body(Undefined, Str(DONE), Undefined, Undefined)}

ConcurrentInit ==
    /\ tasks = SeedTable
    /\ nextId = 2
    /\ pc = "idle"
    /\ req = NoReq
    /\ res = NoRes
    /\ trace = <<>>
    /\ storeCalls = <<>>
    /\ validatedTaskData = NoData
    /\ clients = [c \in 1..MaxClients |-> NoClient]
    /\ \E enumArgs \in EnumArgs : proc = Running(enumArgs)

\* the limiters, validateTask, then updateTask up to its await
PatchArrives(c) ==
    /\ clients[c].pc = "idle"
    /\ \E id \in 1..2, body \in ConcurrentBodies :
          LET r == Request("PATCH", id, body, NoQuery, DateOf(0), DateOf(0))
              invalid == ValidateTaskResponse(body)
              rejected == UpdateTaskRejection(body)
          IN  clients' = [clients EXCEPT ![c] =
                 IF ~Passes(proc)
                 THEN [NoClient EXCEPT !.pc = "done", !.req = r, !.res = Limited(proc)]
                 ELSE IF invalid.sent # 0
                 THEN [NoClient EXCEPT !.pc = "done", !.req = r, !.res = invalid]
                 ELSE IF rejected.sent # 0
                 THEN [NoClient EXCEPT !.pc = "done", !.req = r, !.res = rejected]
                 ELSE [NoClient EXCEPT !.pc = "update", !.req = r,
                                       !.data = UpdateData(body)]]
    /\ UNCHANGED <<tasks, nextId, pc, req, res, trace, storeCalls,
                   validatedTaskData, proc>>

\* the store serves the call prisma.task.update of the request c, after
\* the calls it has served (Applied of them): the update is applied, or the
\* call is rejected and the table is as it was
StoreUpdates(c) ==
    /\ clients[c].pc = "update"
    /\ \E fault \in BOOLEAN :
       LET outcome == WriteOutcome(proc.enumArgs, tasks, clients[c].req.id,
                                   clients[c].data.priority, fault)
           Applied == Cardinality({d \in DOMAIN clients : clients[d].applied > 0})
       IN  /\ tasks' = IF outcome = "ok"
                       THEN TableUpdate(tasks, clients[c].req.id, clients[c].data)
                       ELSE tasks
           /\ clients' = [clients EXCEPT
                 ![c].pc = "resume",
                 ![c].outcome = outcome,
                 ![c].row = IF outcome = "ok" THEN <<tasks'[clients[c].req.id]>>
                            ELSE <<>>,
                 ![c].applied = Applied + 1]
    /\ UNCHANGED <<nextId, pc, req, res, trace, storeCalls, validatedTaskData, proc>>

\* updateTask after its await: res.json of the updated task, or the catch
PatchResponds(c) ==
    /\ clients[c].pc = "resume"
    /\ clients' = [clients EXCEPT
          ![c].pc = "done",
          ![c].res = IF clients[c].outcome = "ok"
                     THEN Success(200, clients[c].row, <<>>)
                     ELSE UpdateCatch(clients[c].outcome)]
    /\ UNCHANGED <<tasks, nextId, pc, req, res, trace, storeCalls,
                   validatedTaskData, proc>>

ConcurrentNext ==
    \/ \E c \in 1..MaxClients :
          \/ PatchArrives(c)
          \/ StoreUpdates(c)
          \/ PatchResponds(c)
    \/ Burst
    \/ LimiterWindowEnds
    \/ ApiLimiterWindowEnds

ConcurrentSpec == ConcurrentInit /\ [][ConcurrentNext]_vars

(***************************************************************************)
(* server.js: graceful shutdown, with the handlers utils/prisma.js puts on *)
(* SIGINT and SIGTERM.  A call of shutdown waits for prisma.$disconnect(); *)
(* what follows the await (server.close, setTimeout) is one step.  The     *)
(* promise of $disconnect resolves, rejects, or stays pending for good.    *)
(* server.close stops the listener and destroys the connections that are   *)
(* idle; a connection with a request under way stays open, and so does one *)
(* that has sent no request yet; the callback of server.close runs once no *)
(* connection is left.                                                     *)
(***************************************************************************)
ServerVars ==
    <<tasks, nextId, pc, req, res, trace, storeCalls, validatedTaskData, clients>>

Alive == proc.exit = "running"

\* shutdown(signal) up to its await
ShutdownCalled(p, signal) ==
    [p EXCEPT !.calls = Append(@, [signal |-> signal, pc |-> "disconnect"])]

\* a client connects to the listener
Accept ==
    /\ Alive
    /\ proc.server = "listening"
    /\ proc.fresh + proc.conns + proc.busy < MaxConns
    /\ proc' = [proc EXCEPT !.fresh = @ + 1]
    /\ UNCHANGED ServerVars

\* a request arrives on a connection: its first, or the next on an idle one
RequestStarts ==
    /\ Alive
    /\ \/ /\ proc.fresh > 0
          /\ proc' = [proc EXCEPT !.fresh = @ - 1, !.busy = @ + 1]
       \/ /\ proc.conns > 0
          /\ proc' = [proc EXCEPT !.conns = @ - 1, !.busy = @ + 1]
    /\ UNCHANGED ServerVars

\* the response of a request is written: its connection is idle again
RequestEnds ==
    /\ Alive
    /\ proc.busy > 0
    /\ proc' = [proc EXCEPT !.busy = @ - 1, !.conns = @ + 1]
    /\ UNCHANGED ServerVars

\* a connection ends: the client closes it, or its keep-alive time runs out
ConnectionEnds ==
    /\ Alive
    /\ \/ /\ proc.fresh > 0
          /\ proc' = [proc EXCEPT !.fresh = @ - 1]
       \/ /\ proc.conns > 0
          /\ proc' = [proc EXCEPT !.conns = @ - 1]
       \/ /\ proc.busy > 0
          /\ proc' = [proc EXCEPT !.busy = @ - 1]
    /\ UNCHANGED ServerVars

\* SIGTERM or SIGINT: disconnectDB (utils/prisma.js), then shutdown
Signal ==
    /\ Alive
    /\ Len(proc.calls) < MaxShutdowns
    /\ \E signal \in {"SIGTERM", "SIGINT"} :
          proc' = ShutdownCalled(
                     [proc EXCEPT !.handlers =
                         Append(@, IF proc.isConnected THEN "disconnect" ELSE "done")],
                     signal)
    /\ UNCHANGED ServerVars

\* an unhandled rejection or an uncaught exception of the application
Fault ==
    /\ Alive
    /\ Len(proc.calls) < MaxShutdowns
    /\ \E signal \in {"UNHANDLED_REJECTION", "UNCAUGHT_EXCEPTION"} :
          proc' = ShutdownCalled(proc, signal)
    /\ UNCHANGED ServerVars

\* await prisma.$disconnect() of the call i resolves: server.close(callback),
\* which destroys the idle connections and leaves open those with a request
\* under way and those that have sent none yet, and setTimeout(.., 5000)
Disconnected(i) ==
    /\ Alive
    /\ proc.calls[i].pc = "disconnect"
    /\ proc' = [proc EXCEPT !.calls[i].pc = "armed",
                            !.server = IF @ = "listening" THEN "closing" ELSE @,
                            !.conns = 0,
                            !.timers = @ + 1]
    /\ UNCHANGED ServerVars

\* await prisma.$disconnect() of the call i rejects: the catch exits
DisconnectFails(i) ==
    /\ Alive
    /\ proc.calls[i].pc = "disconnect"
    /\ proc' = [proc EXCEPT !.calls[i].pc = "failed", !.exit = "exit 1"]
    /\ UNCHANGED ServerVars

\* the promise of prisma.$disconnect() of the call i stays pending
DisconnectHangs(i) ==
    /\ Alive
    /\ proc.calls[i].pc = "disconnect"
    /\ proc' = [proc EXCEPT !.calls[i].pc = "hung"]
    /\ UNCHANGED ServerVars

\* disconnectDB after its await
HandlerDisconnected(j) ==
    /\ Alive
    /\ proc.handlers[j] = "disconnect"
    /\ proc' = [proc EXCEPT !.handlers[j] = "done", !.isConnected = FALSE]
    /\ UNCHANGED ServerVars

\* disconnectDB rethrows: the promise the listener returned is rejected and
\* nothing handles it
HandlerFails(j) ==
    /\ Alive
    /\ proc.handlers[j] = "disconnect"
    /\ proc' = [proc EXCEPT !.handlers[j] = "thrown", !.rejections = @ + 1]
    /\ UNCHANGED ServerVars

HandlerHangs(j) ==
    /\ Alive
    /\ proc.handlers[j] = "disconnect"
    /\ proc' = [proc EXCEPT !.handlers[j] = "hung"]
    /\ UNCHANGED ServerVars

\* process.on('unhandledRejection'): the event of a rejected promise of
\* disconnectDB comes, later than the rejection, and its listener calls
\* shutdown (MaxShutdowns calls of shutdown are followed)
UnhandledRejection ==
    /\ Alive
    /\ proc.rejections > 0
    /\ LET taken == [proc EXCEPT !.rejections = @ - 1]
       IN  proc' = IF Len(proc.calls) < MaxShutdowns
                   THEN ShutdownCalled(taken, "UNHANDLED_REJECTION")
                   ELSE taken
    /\ UNCHANGED ServerVars

\* the listener has closed, no connection is left: the callback of
\* server.close exits
ServerClosed ==
    /\ Alive
    /\ proc.server = "closing"
    /\ proc.fresh + proc.conns + proc.busy = 0
    /\ proc' = [proc EXCEPT !.server = "closed", !.exit = "exit 0"]
    /\ UNCHANGED ServerVars

\* the timer of a call fires: the forced exit.  The five seconds pass only
\* while a connection keeps the callback of server.close from running
TimerFires ==
    /\ Alive
    /\ proc.timers > 0
    /\ proc.fresh + proc.conns + proc.busy > 0
    /\ proc' = [proc EXCEPT !.timers = @ - 1, !.exit = "exit 1"]
    /\ UNCHANGED ServerVars

\* the promise of a call of prisma.$disconnect() takes one of its courses
DisconnectSettles ==
    \/ \E i \in 1..MaxShutdowns :
          /\ i <= Len(proc.calls)
          /\ Disconnected(i) \/ DisconnectFails(i) \/ DisconnectHangs(i)
    \/ \E j \in 1..MaxShutdowns :
          /\ j <= Len(proc.handlers)
          /\ HandlerDisconnected(j) \/ HandlerFails(j) \/ HandlerHangs(j)

ShutdownNext ==
    \/ Accept
    \/ RequestStarts
    \/ RequestEnds
    \/ ConnectionEnds
    \/ Signal
    \/ Fault
    \/ DisconnectSettles
    \/ UnhandledRejection
    \/ ServerClosed
    \/ TimerFires

\* the event loop runs what is ready: settled promises, the events of
\* rejected promises, the close event, timers that are due; clients and
\* signals come as they please
ShutdownFairness ==
    /\ WF_vars(DisconnectSettles)
    /\ WF_vars(UnhandledRejection)
    /\ WF_vars(ServerClosed)
    /\ WF_vars(TimerFires)

ShutdownSpec == Init /\ [][ShutdownNext]_vars /\ ShutdownFairness

(***************************************************************************)
(* Vocabulary of the properties.                                           *)
(***************************************************************************)
Statuses == {TODO, IN_PROGRESS, DONE}
Priorities == {LOW, MEDIUM, HIGH}

\* no store call of the request ended in an unexpected failure
NoStoreFailure(calls) == \A i \in 1..Len(calls) : calls[i].outcome # "error"

SomeStoreFailure(calls) == \E i \in 1..Len(calls) : calls[i].outcome = "error"

\* a string with a character that is no white space
NonBlankString(x) ==
    x.t = "string" /\ \E i \in 1..Len(x.s) : x.s[i] \notin WhiteSpace

\* t is s without its leading and trailing white space
IsTrimOf(t, s) ==
    \E i \in 0..Len(s), j \in 0..Len(s) :
        /\ i + Len(t) + j = Len(s)
        /\ \A k \in 1..i : s[k] \in WhiteSpace
        /\ \A k \in (Len(s) - j + 1)..Len(s) : s[k] \in WhiteSpace
        /\ \A k \in 1..Len(t) : t[k] = s[i + k]
        /\ t # <<>> => (t[1] \notin WhiteSpace /\ t[Len(t)] \notin WhiteSpace)

\* x is one of the strings of the set S
StringIn(x, S) == x.t = "string" /\ x.s \in S

\* a body with a status of the enumeration and no other field
StatusOnlyBody(body) ==
    /\ body.present
    /\ StringIn(body.status, Statuses)
    /\ IsUndefined(body.title)
    /\ IsUndefined(body.priority)
    /\ IsUndefined(body.dueDate)

\* the limiters have let the request through: a handler after apiLimiter
\* was entered
Handled(t) == Len(t) >= 2

\* the step on which a request of method m arrives and passes the limiters
Arrives(m) == pc = "idle" /\ Passes(proc) /\ req'.method = m

\* the step on which the store serves the write op of the request, the
\* store raising no unexpected failure
StoreServes(op) == pc = op /\ pc' = "resume" /\ storeCalls'[1].outcome # "error"

\* the step on which the code after the await answers the request of
\* method m, the store having raised no unexpected failure
Resumes(m) ==
    pc = "resume" /\ pc' = "done" /\ req.method = m /\ NoStoreFailure(storeCalls)

\* the step on which validateTask or the controller answers the request
\* before any call of the store
Rejects(m) == pc \in {"idle", "createTask", "updateTask"} /\ pc' = "done"
              /\ req'.method = m /\ Handled(trace')

\* the instant a date string of the requests names, read as ISO 8601:
\* 1970-01-03 is the start of that day in UTC, 24:00:00 the end of the day,
\* 12:00 at +02:00 is 10:00 UTC on day 19782, 2024-02-29
SuppliedInstant(x) ==
    CASE x = Day3 -> DateAt(2, 0)
      [] x = Day2Midnight -> DateAt(2, 0)
      [] x = Day2End -> DateAt(1, MsPerDay - 1000)
      [] x = LeapDay -> DateAt(19782, 10 * 60 * 60 * 1000)
      [] OTHER -> InvalidDate

\* a string that names an instant
DateString(x) == x.t = "string" /\ SuppliedInstant(x).t = "Date"

\* validateTask and the controller accept the body of a PATCH
UpdateAccepted(body) ==
    ValidateTaskResponse(body).sent = 0 /\ UpdateTaskRejection(body).sent = 0

(***************************************************************************)
(* C1  PATCH /tasks/{id} of an existing task with a body that holds only a *)
(* valid status succeeds and changes the status alone: title, priority and *)
(* dueDate of the task stay as they were.  The request is not rejected     *)
(* before the store is called, the update the store serves for it changes  *)
(* the status of the task alone, and the answer is 200.  The code answers  *)
(* 400, field title: validateTask asks every PATCH for a title.            *)
(***************************************************************************)
C1_StatusOnlyPatch ==
    [][ /\ ~(Rejects("PATCH") /\ StatusOnlyBody(req'.body))
        /\ ( /\ StoreServes("update")
             /\ StatusOnlyBody(req.body)
             /\ req.id \in DOMAIN tasks )
           => ( /\ req.id \in DOMAIN tasks'
                /\ tasks'[req.id].status = req.body.status.s
                /\ tasks'[req.id].title = tasks[req.id].title
                /\ tasks'[req.id].priority = tasks[req.id].priority
                /\ tasks'[req.id].dueDate = tasks[req.id].dueDate )
        /\ ( /\ Resumes("PATCH")
             /\ StatusOnlyBody(req.body)
             /\ storeCalls[1].outcome = "ok" )
           => res'.status = 200 ]_vars

(***************************************************************************)
(* C2  Every stored task has a status of {TODO, IN_PROGRESS, DONE} and a   *)
(* priority of {low, medium, high}, whatever requests were served.         *)
(***************************************************************************)
C2_StoredEnums ==
    \A id \in DOMAIN tasks :
        tasks[id].status \in Statuses /\ tasks[id].priority \in Priorities

\* a task was created from a body whose status is the empty string
C2_Witness ==
    /\ pc = "done"
    /\ req.method = "POST"
    /\ req.body.status.t = "string" /\ req.body.status.s = <<>>
    /\ res.status = 201
    /\ res.data[1].status = TODO

(***************************************************************************)
(* C3  Every stored title is a non-empty string with no leading and no     *)
(* trailing white space, after any sequence of creates and updates.        *)
(***************************************************************************)
C3_StoredTitles ==
    \A id \in DOMAIN tasks :
        LET title == tasks[id].title
        IN  /\ title # <<>>
            /\ title[1] \notin WhiteSpace
            /\ title[Len(title)] \notin WhiteSpace

\* an update has stored the title of a body that pads it with a byte order
\* mark and a carriage return
C3_Witness ==
    /\ pc = "done"
    /\ req.method = "PATCH"
    /\ req.body.title.t = "string"
    /\ req.body.title.s = <<"U+FEFF", "a", "\r">>
    /\ res.status = 200
    /\ res.data[1].title = <<"a">>
    /\ req.id \in DOMAIN tasks
    /\ tasks[req.id].title = <<"a">>

(***************************************************************************)
(* C4  As claimed: a valid creation input (a title with a character that   *)
(* is no white space; status, priority and dueDate each omitted or valid)  *)
(* is answered 201 and adds exactly one task: its title is the trimmed     *)
(* input title, its status the supplied one or TODO, its priority the      *)
(* supplied one or medium, its dueDate the supplied instant or null; the   *)
(* tasks stored before are unchanged.  The request is not rejected before  *)
(* the store is called, the creation adds that task to the table as it is  *)
(* when the store serves it, and the answer is 201 with the task.  Only a  *)
(* failure of the database excuses the store: a creation whose arguments   *)
(* the client does not take is a creation the claim says is stored.        *)
(***************************************************************************)
ValidCreateInput(body) ==
    /\ body.present
    /\ NonBlankString(body.title)
    /\ IsUndefined(body.status) \/ StringIn(body.status, Statuses)
    /\ IsUndefined(body.priority) \/ StringIn(body.priority, Priorities)
    /\ IsUndefined(body.dueDate) \/ IsNull(body.dueDate) \/ DateString(body.dueDate)

\* the priority the claim gives the task of a valid creation input
ClaimedPriority(body) ==
    IF IsUndefined(body.priority) THEN MEDIUM ELSE body.priority.s

\* the creation of the calls failed in the database: the store raised a
\* failure although the client takes the priority the task is to have
DatabaseFailed(calls, body) ==
    /\ calls[1].outcome = "error"
    /\ TakesPriority(proc.enumArgs, Str(ClaimedPriority(body)))

\* the creation served on this step added the task of the body, and
\* nothing else changed in the table
AddsTaskOf(body) ==
    /\ \E new \in DOMAIN tasks' \ DOMAIN tasks :
          LET row == tasks'[new]
          IN  /\ DOMAIN tasks' = DOMAIN tasks \cup {new}
              /\ storeCalls'[1].rows = <<row>>
              /\ row.id = new
              /\ IsTrimOf(row.title, body.title.s)
              /\ row.status = IF IsUndefined(body.status) THEN TODO
                              ELSE body.status.s
              /\ row.priority = ClaimedPriority(body)
              /\ IF IsUndefined(body.dueDate) \/ IsNull(body.dueDate)
                 THEN IsNull(row.dueDate)
                 ELSE row.dueDate = SuppliedInstant(body.dueDate)
    /\ \A old \in DOMAIN tasks : tasks'[old] = tasks[old]

\* the answer of this step is 201 with the task the store returned
Answers201 ==
    /\ res'.status = 201
    /\ res'.success
    /\ res'.data = storeCalls[1].rows

C4_CreateStoresInput ==
    [][ /\ ~(Rejects("POST") /\ ValidCreateInput(req'.body))
        /\ ( /\ pc = "create" /\ pc' = "resume"
             /\ ValidCreateInput(req.body)
             /\ ~DatabaseFailed(storeCalls', req.body) )
           => AddsTaskOf(req.body)
        /\ ( /\ pc = "resume" /\ pc' = "done" /\ req.method = "POST"
             /\ ValidCreateInput(req.body)
             /\ ~DatabaseFailed(storeCalls, req.body) )
           => Answers201 ]_vars

(***************************************************************************)
(* C4, of the creations the store accepts  A valid creation input is not   *)
(* rejected before the store is called; when the store raises no failure   *)
(* the creation adds exactly the task the claim describes and leaves the   *)
(* other tasks as they were, and the answer is 201 with that task.         *)
(***************************************************************************)
C4_AcceptedCreateStored ==
    [][ /\ ~(Rejects("POST") /\ ValidCreateInput(req'.body))
        /\ (StoreServes("create") /\ ValidCreateInput(req.body))
           => AddsTaskOf(req.body)
        /\ (Resumes("POST") /\ ValidCreateInput(req.body))
           => Answers201 ]_vars

(***************************************************************************)
(* C5  As claimed: for an identifier that names no stored task, DELETE,    *)
(* and PATCH with any body, answer 404 and leave the store unchanged (the  *)
(* store raising no unexpected failure).  The bodies are those that carry  *)
(* a string as title, so that the title validateTask asks of every PATCH   *)
(* (C1) is there: a body with an empty title, a status 'todo' or a         *)
(* dueDate that is no date is answered 400.                                *)
(***************************************************************************)
\* what the store and the code after the await do for an identifier that
\* names no task when the call is served
UnknownIdEffect ==
    /\ \A op \in {"update", "delete"} :
          (StoreServes(op) /\ req.id \notin DOMAIN tasks)
             => (storeCalls'[1].outcome = "P2025" /\ tasks' = tasks)
    /\ \A m \in {"PATCH", "DELETE"} :
          (Resumes(m) /\ storeCalls[1].outcome = "P2025")
             => ( /\ res'.status = 404
                  /\ ~res'.success
                  /\ res'.error = "Task not found"
                  /\ tasks' = tasks )

C5_UnknownIdAnyBody ==
    [][ /\ UnknownIdEffect
        /\ ( /\ Rejects("PATCH")
             /\ req'.id \notin DOMAIN tasks
             /\ req'.body.title.t = "string" )
           => res'.status = 404 ]_vars

(***************************************************************************)
(* C5, amended  For an identifier that names no stored task when the store *)
(* serves the call, DELETE, and PATCH with a body that validateTask and    *)
(* updateTask accept, answer 404 'Task not found' and leave the store      *)
(* unchanged (the store raising no unexpected failure); a PATCH whose body *)
(* validation rejects is answered by validation, before the identifier is  *)
(* looked up.                                                              *)
(***************************************************************************)
C5_UnknownIdNotFound ==
    [][ /\ UnknownIdEffect
        /\ ~(Rejects("PATCH") /\ UpdateAccepted(req'.body))
        /\ (Rejects("PATCH") /\ req'.id \notin DOMAIN tasks)
           => (res'.status # 404 /\ storeCalls' = <<>> /\ tasks' = tasks) ]_vars

\* an update of an identifier that names no task of a store that is not
\* empty was answered 404
C5_Witness ==
    /\ pc = "done"
    /\ req.method = "PATCH"
    /\ req.id \notin DOMAIN tasks
    /\ DOMAIN tasks # {}
    /\ trace = <<"apiLimiter", "validateTask", "updateTask">>
    /\ storeCalls[1].outcome = "P2025"
    /\ res.status = 404

(***************************************************************************)
(* C6  An unexpected store failure in create, update or delete is answered *)
(* 500.  The code answers 400 in createTask and in updateTask, the status  *)
(* of a validation failure.                                                *)
(***************************************************************************)
C6_StoreFailureIs500 ==
    ( /\ pc = "done"
      /\ req.method \in {"POST", "PATCH", "DELETE"}
      /\ SomeStoreFailure(storeCalls) )
    => res.status = 500

(***************************************************************************)
(* C7  A POST or PATCH whose title is missing (a request without a body    *)
(* included), no string, empty or white space only is answered 400 with    *)
(* field 'title' by validateTask; the controller is not reached, the store *)
(* is not called and no task is created or modified.                       *)
(***************************************************************************)
\* the request of this step is answered by validateTask, which leaves the
\* store and the tasks alone
EndsInValidateTask ==
    /\ pc' = "done"
    /\ trace' = <<"apiLimiter", "validateTask">>
    /\ storeCalls' = <<>>
    /\ tasks' = tasks
    /\ nextId' = nextId

TitleRejected ==
    /\ EndsInValidateTask
    /\ res'.status = 400
    /\ ~res'.success
    /\ res'.field = "title"

C7_BlankTitleRejected ==
    [][ ( /\ Arrives("POST") \/ Arrives("PATCH")
          /\ ~NonBlankString(req'.body.title) )
        => TitleRejected ]_vars

(***************************************************************************)
(* C7, of the requests with a body  A POST or PATCH with a body whose      *)
(* title is missing, no string, empty or white space only is answered 400  *)
(* with field 'title' by validateTask; a request without a body ends in    *)
(* validateTask too, answered 500 'Validation failed' with no field; in    *)
(* both cases the controller is not reached and no task changes.           *)
(***************************************************************************)
C7_TitleOfBodyRejected ==
    [][ /\ ( /\ Arrives("POST") \/ Arrives("PATCH")
             /\ req'.body.present
             /\ ~NonBlankString(req'.body.title) )
           => TitleRejected
        /\ ( /\ Arrives("POST") \/ Arrives("PATCH")
             /\ ~req'.body.present )
           => ( /\ EndsInValidateTask
                /\ res'.status = 500
                /\ res'.error = "Validation failed"
                /\ res'.field = "" ) ]_vars

(***************************************************************************)
(* C8  A string status that is none of TODO, IN_PROGRESS, DONE (a case     *)
(* variant or the empty string included) is rejected with 400 by the       *)
(* validation of create and update, and validOptions of the response is    *)
(* the list TODO, IN_PROGRESS, DONE and nothing else.  The code lets the   *)
(* empty string pass, and lists a fourth option, the array STATUS._ALL.    *)
(***************************************************************************)
C8_InvalidStatusRejected ==
    ( /\ Handled(trace)
      /\ req.method \in {"POST", "PATCH"}
      /\ req.body.present
      /\ NonBlankString(req.body.title)
      /\ req.body.status.t = "string"
      /\ req.body.status.s \notin Statuses )
    => ( /\ pc = "done"
         /\ trace = <<"apiLimiter", "validateTask">>
         /\ res.status = 400
         /\ res.validOptions.t = "array"
         /\ Len(res.validOptions.a) = 3
         /\ \A i \in 1..3 :
               /\ res.validOptions.a[i].t = "string"
               /\ res.validOptions.a[i].s = <<TODO, IN_PROGRESS, DONE>>[i] )

(***************************************************************************)
(* Vocabulary of the properties of GET /tasks.  The two reads of a request *)
(* are served at moments of their own (C21): what a read returns is        *)
(* stated of the table at the moment the store serves it, and what the     *)
(* response holds is stated of what the two reads returned.                *)
(***************************************************************************)
\* the step on which the store serves findMany, and count, for the request
FindManyServed ==
    /\ pc = "reads"
    /\ ~Served(storeCalls, "findMany")
    /\ Served(storeCalls', "findMany")
    /\ Answer(storeCalls', "findMany").outcome = "ok"

CountServed ==
    /\ pc = "reads"
    /\ ~Served(storeCalls, "count")
    /\ Served(storeCalls', "count")
    /\ Answer(storeCalls', "count").outcome = "ok"

\* the page and the number the reads of the calls returned
PageOf(calls) == Answer(calls, "findMany").rows

TotalOf(calls) == Answer(calls, "count").n

\* the string holds digits only
AllDigits(s) == \A i \in 1..Len(s) : IsDigit(s[i])

\* a decimal literal (digits only) of value >= 1
PositiveLiteral(x) ==
    /\ x.t = "string"
    /\ x.s # <<>>
    /\ AllDigits(x.s)
    /\ \E i \in 1..Len(x.s) : x.s[i] # "0"

LiteralValue(x, default) == IF IsUndefined(x) THEN default ELSE DigitPrefix(x.s, 0)

ValidPaging(query) ==
    /\ IsUndefined(query.page) \/ PositiveLiteral(query.page)
    /\ IsUndefined(query.limit) \/ PositiveLiteral(query.limit)

ValidFilters(query) ==
    /\ IsUndefined(query.status) \/ StringIn(query.status, Statuses)
    /\ IsUndefined(query.priority) \/ StringIn(query.priority, Priorities)
    /\ IsUndefined(query.dateFilter)
       \/ StringIn(query.dateFilter, {TODAY, WEEK, MONTH, OVERDUE})

\* a request with valid paging and valid filters
ValidGet(r) == r.method = "GET" /\ ValidPaging(r.query) /\ ValidFilters(r.query)

\* the stored tasks the filters of the request r select; the range of a
\* date filter is the one getTasks derives
Selected(r) ==
    {id \in DOMAIN tasks :
        /\ IsUndefined(r.query.status) \/ tasks[id].status = r.query.status.s
        /\ IsUndefined(r.query.priority) \/ tasks[id].priority = r.query.priority.s
        /\ Matches(tasks[id],
                   [WhereOf(r.query, r.now, r.later) EXCEPT
                       !.status = Undefined, !.priority = Undefined])}

\* the identifiers of the rows of a page
Ids(rows) == {rows[i].id : i \in 1..Len(rows)}

\* the response is the 200 built from the page and the number the two
\* reads of the request returned
BuiltFromReads(response, r, calls) ==
    /\ response.status = 200
    /\ response.success
    /\ response.data = PageOf(calls)
    /\ Len(response.pagination) = 1
    /\ response.pagination[1].total = TotalOf(calls)

(***************************************************************************)
(* C9  A GET /tasks with page and limit omitted or decimal literals >= 1   *)
(* (filters valid, reads succeeding) is answered 200 with at most limit    *)
(* items; total is the number of stored tasks that match the filters,      *)
(* whatever page and limit are, and totalPages is ceil(total / limit); on  *)
(* the empty store with page 1 and limit 10 it answers data = [],          *)
(* total = 0 and totalPages = 0.  The store is the table at the moment the *)
(* read is served.                                                         *)
(***************************************************************************)
C9_Pagination ==
    [][ LET l == LiteralValue(req.query.limit, 10)
            p == LiteralValue(req.query.page, 1)
        IN  /\ ~(Rejects("GET") /\ ValidGet(req'))
            /\ (FindManyServed /\ ValidGet(req))
               => ( /\ Len(PageOf(storeCalls')) <= l
                    /\ Ids(PageOf(storeCalls')) \subseteq Selected(req)
                    /\ DOMAIN tasks = {} => PageOf(storeCalls') = <<>> )
            /\ (CountServed /\ ValidGet(req))
               => TotalOf(storeCalls') = Cardinality(Selected(req))
            /\ (Resumes("GET") /\ ValidGet(req))
               => LET total == TotalOf(storeCalls)
                      totalPages == res'.pagination[1].totalPages
                  IN  /\ BuiltFromReads(res', req, storeCalls)
                      /\ res'.pagination[1].page = p
                      /\ res'.pagination[1].limit = l
                      /\ totalPages * l >= total
                      /\ (totalPages - 1) * l < total
                      /\ totalPages >= 0 ]_vars

\* the second page of one item, of a store of two tasks
C9_Witness ==
    /\ pc = "done"
    /\ req.method = "GET"
    /\ res.status = 200
    /\ Len(res.pagination) = 1
    /\ res.pagination[1].page = 2
    /\ res.pagination[1].limit = 1
    /\ res.pagination[1].total = 2
    /\ res.pagination[1].totalPages = 2
    /\ Len(res.data) = 1

(***************************************************************************)
(* C10  GET /tasks answers 400 'Invalid pagination parameters', with no    *)
(* store read, whenever a supplied page or limit is not wholly a positive  *)
(* integer literal (white space around it allowed).  The code reads both   *)
(* with parseInt, which takes the digits a string starts with: page=5abc   *)
(* is served as page 5, page=2.7 as page 2, limit=1x as limit 1, page=0x2  *)
(* as page 2, and page=2&page=3 as page 2.                                 *)
(***************************************************************************)
PositiveInteger(x) == x.t = "string" /\ PositiveLiteral(Str(Trim(x.s)))

C10_PaginationRejected ==
    ( /\ pc = "done"
      /\ req.method = "GET"
      /\ Handled(trace)
      /\ \/ ~IsUndefined(req.query.page) /\ ~PositiveInteger(req.query.page)
         \/ ~IsUndefined(req.query.limit) /\ ~PositiveInteger(req.query.limit) )
    => ( /\ res.status = 400
         /\ res.error = "Invalid pagination parameters"
         /\ storeCalls = <<>> )

(***************************************************************************)
(* C11  For every store content and every combination of status, priority  *)
(* and dateFilter values of their enumerations, GET /tasks counts and      *)
(* returns the stored tasks that satisfy every supplied filter, and no     *)
(* other; an omitted filter imposes no constraint (the month filter        *)
(* imposes none either, C19).  total is their number when the count is     *)
(* served; every returned item is one of them as stored when the page is   *)
(* served, and the page holds as many of them as page and limit leave: all *)
(* of them on a first page that is long enough.                            *)
(***************************************************************************)
\* the week (from Sunday) of the instant d, counted from the week of
\* 1970-01-01, a Thursday
WeekOf(d) == (d.day + 4) \div 7

\* the row has a due date in the range the date filter f stands for, now
\* being the instant of the request and cutoff the instant overdue counts to
DueIn(row, f, now, cutoff) ==
    /\ ~IsNull(row.dueDate)
    /\ f = TODAY => row.dueDate.day = now.day
    /\ f = WEEK => WeekOf(row.dueDate) = WeekOf(now)
    /\ f = OVERDUE => Earlier(row.dueDate, cutoff)

\* the row satisfies every filter the query supplies
Satisfies(row, query, now, cutoff) ==
    /\ IsUndefined(query.status) \/ row.status = query.status.s
    /\ IsUndefined(query.priority) \/ row.priority = query.priority.s
    /\ \/ IsUndefined(query.dateFilter)
       \/ query.dateFilter.s = MONTH
       \/ DueIn(row, query.dateFilter.s, now, cutoff)

Satisfying(r) == {id \in DOMAIN tasks : Satisfies(tasks[id], r.query, r.now, r.later)}

Min(a, b) == IF a < b THEN a ELSE b

Max(a, b) == IF a > b THEN a ELSE b

DateFilterAlone(r, f) ==
    /\ r.method = "GET"
    /\ StringIn(r.query.dateFilter, {f})
    /\ IsUndefined(r.query.status) /\ IsUndefined(r.query.priority)
    /\ IsUndefined(r.query.page) /\ IsUndefined(r.query.limit)

\* the stored tasks due on the calendar day of the instant now
DueOnDayOf(now) ==
    LET startOfToday == DateAt(now.day, 0)
        endOfToday == DateAt(now.day, MsPerDay - 1)
    IN  {id \in DOMAIN tasks :
            /\ ~IsNull(tasks[id].dueDate)
            /\ NotLater(startOfToday, tasks[id].dueDate)
            /\ NotLater(tasks[id].dueDate, endOfToday)}

C12_TodayFilter ==
    [][ /\ ~(Rejects("GET") /\ DateFilterAlone(req', TODAY))
        /\ (FindManyServed /\ DateFilterAlone(req, TODAY))
           => Ids(PageOf(storeCalls')) = DueOnDayOf(req.now)
        /\ (CountServed /\ DateFilterAlone(req, TODAY))
           => TotalOf(storeCalls') = Cardinality(DueOnDayOf(req.now))
        /\ (Resumes("GET") /\ DateFilterAlone(req, TODAY))
           => BuiltFromReads(res', req, storeCalls) ]_vars

\* at noon of 1970-01-03, of a task due at 00:00:00 that day and a task due
\* at 23:59:59 the day before, the first alone is returned
C12_Witness ==
    /\ pc = "done"
    /\ req.method = "GET"
    /\ StringIn(req.query.dateFilter, {TODAY})
    /\ req.now = DateAt(2, 12 * 3600 * 1000)
    /\ \E i, j \in DOMAIN tasks :
          /\ tasks[i].dueDate = DateAt(2, 0)
          /\ tasks[j].dueDate = DateAt(1, MsPerDay - 1000)
          /\ res.status = 200
          /\ res.pagination[1].total = 1
          /\ Len(res.data) = 1
          /\ res.data[1].id = i

(***************************************************************************)
(* C13  With dateFilter=overdue alone, GET /tasks matches a task exactly   *)
(* when its dueDate is strictly earlier than the instant the filter is     *)
(* resolved at, with no lower bound: a task due one second before it is    *)
(* included, a task due at that very instant or one second after it and a  *)
(* task with no dueDate are not.                                           *)
(***************************************************************************)
\* the stored tasks due before the instant cutoff
DueBefore(cutoff) ==
    {id \in DOMAIN tasks :
        ~IsNull(tasks[id].dueDate) /\ Earlier(tasks[id].dueDate, cutoff)}

C13_OverdueFilter ==
    [][ /\ ~(Rejects("GET") /\ DateFilterAlone(req', OVERDUE))
        /\ (FindManyServed /\ DateFilterAlone(req, OVERDUE))
           => Ids(PageOf(storeCalls')) = DueBefore(req.later)
        /\ (CountServed /\ DateFilterAlone(req, OVERDUE))
           => TotalOf(storeCalls') = Cardinality(DueBefore(req.later))
        /\ (Resumes("GET") /\ DateFilterAlone(req, OVERDUE))
           => BuiltFromReads(res', req, storeCalls) ]_vars

\* of a task due one second before the instant of the filter and a task due
\* at that instant, the first alone is returned
C13_Witness ==
    /\ pc = "done"
    /\ req.method = "GET"
    /\ StringIn(req.query.dateFilter, {OVERDUE})
    /\ req.later = DateAt(2, 0)
    /\ \E i, j \in DOMAIN tasks :
          /\ tasks[i].dueDate = DateAt(1, MsPerDay - 1000)
          /\ tasks[j].dueDate = req.later
          /\ res.status = 200
          /\ res.pagination[1].total = 1
          /\ Len(res.data) = 1
          /\ res.data[1].id = i

(***************************************************************************)
(* C14  On update of an existing task, a request that omits dueDate leaves *)
(* the stored dueDate unchanged, a request with dueDate null sets it to    *)
(* null, and a request with a valid date string sets it to that instant.   *)
(* A request is a partial update: each of title, status, priority and      *)
(* dueDate is omitted or valid.  The code answers 400, field title, to a   *)
(* request that omits the title (C1), and leaves the dueDate as it was.    *)
(***************************************************************************)
\* a body whose fields are each omitted or valid
PartialUpdate(body) ==
    /\ body.present
    /\ IsUndefined(body.title) \/ NonBlankString(body.title)
    /\ IsUndefined(body.status) \/ StringIn(body.status, Statuses)
    /\ IsUndefined(body.priority) \/ StringIn(body.priority, Priorities)
    /\ \/ IsUndefined(body.dueDate)
       \/ IsNull(body.dueDate)
       \/ (body.dueDate.t = "string" /\ NewDate(body.dueDate).t = "Date")

\* the stored dueDate of the task id after the update with body, the
\* table being before and after
DueDateApplied(body, id, before, after) ==
    /\ id \in DOMAIN after
    /\ IsUndefined(body.dueDate) => after[id].dueDate = before[id].dueDate
    /\ IsNull(body.dueDate) => IsNull(after[id].dueDate)
    /\ body.dueDate.t = "string" => after[id].dueDate = NewDate(body.dueDate)

\* the update the store serves for a partial update of a stored task
\* applies its dueDate
DueDateStored ==
    (StoreServes("update") /\ PartialUpdate(req.body) /\ req.id \in DOMAIN tasks)
       => DueDateApplied(req.body, req.id, tasks, tasks')

C14_DueDateOnUpdate ==
    [][ /\ ~(Rejects("PATCH") /\ PartialUpdate(req'.body))
        /\ DueDateStored ]_vars

(***************************************************************************)
(* C14, of the requests that carry a title  An update that validateTask    *)
(* lets through and the store applies keeps the three cases of dueDate     *)
(* apart, and is answered 200.                                             *)
(***************************************************************************)
C14_DueDateWithTitle ==
    [][ /\ ~( /\ Rejects("PATCH")
              /\ PartialUpdate(req'.body)
              /\ NonBlankString(req'.body.title) )
        /\ DueDateStored
        /\ ( /\ Resumes("PATCH")
             /\ PartialUpdate(req.body)
             /\ storeCalls[1].outcome = "ok" )
           => (res'.status = 200 /\ res'.data = storeCalls[1].rows) ]_vars

(***************************************************************************)
(* C15  As claimed: DELETE /tasks/{id} of an existing task answers 204,    *)
(* removes that task and leaves every other task as it was; an identifier  *)
(* that named a task once is never handed out again, the page a GET /tasks *)
(* reads from then on holds no task under it and is the data of the        *)
(* response, and every later PATCH or DELETE of it answers 404 (the store  *)
(* raising no unexpected failure).  The PATCH bodies are those that carry  *)
(* a string as title, as for C5.                                           *)
(***************************************************************************)
\* the identifiers handed out so far that name no stored task
Deleted(table, next) == (1..(next - 1)) \ DOMAIN table

\* what a DELETE does, and what every step keeps of a deleted task: it
\* stays deleted, the page the store serves to a GET holds no row of it and
\* a GET answered 200 carries the page the store served, and the store
\* finds no task under it
DeleteEffect ==
    /\ (StoreServes("delete") /\ req.id \in DOMAIN tasks)
       => ( /\ storeCalls'[1].outcome = "ok"
            /\ DOMAIN tasks' = DOMAIN tasks \ {req.id}
            /\ \A other \in DOMAIN tasks' : tasks'[other] = tasks[other] )
    /\ (Resumes("DELETE") /\ storeCalls[1].outcome = "ok") => res'.status = 204
    /\ Deleted(tasks, nextId) \subseteq Deleted(tasks', nextId')
    /\ FindManyServed
       => Ids(PageOf(storeCalls')) \cap Deleted(tasks, nextId) = {}
    /\ (Resumes("GET") /\ res'.status = 200) => res'.data = PageOf(storeCalls)
    /\ \A op \in {"update", "delete"} :
          (StoreServes(op) /\ req.id \in Deleted(tasks, nextId))
             => (storeCalls'[1].outcome = "P2025" /\ tasks' = tasks)
    /\ \A m \in {"PATCH", "DELETE"} :
          (Resumes(m) /\ storeCalls[1].outcome = "P2025") => res'.status = 404

C17_StructuredFailures ==
    /\ pc # "done" => res.sent = 0
    /\ (pc = "done" /\ Handled(trace)) =>
          /\ res.sent = 1
          /\ res.status \in {200, 201, 204, 400, 404, 500}
          /\ res.status >= 400 =>
                /\ res.json
                /\ ~res.success
                /\ res.error # ""
                /\ res.data = <<>>
          /\ Len(storeCalls) <= 2
          /\ \A i, j \in 1..Len(storeCalls) :
                storeCalls[i].op = storeCalls[j].op => i = j
          /\ (req.method = "GET" /\ SomeStoreFailure(storeCalls)) =>
                (res.status = 500 /\ res.error = "Failed to fetch tasks")

\* a GET /tasks whose count the store failed, after it had served the page,
\* was answered 500 'Failed to fetch tasks'
C17_Witness ==
    /\ pc = "done"
    /\ req.method = "GET"
    /\ Len(storeCalls) = 2
    /\ storeCalls[1].outcome = "ok"
    /\ storeCalls[2].outcome = "error"
    /\ res.sent = 1
    /\ res.status = 500
    /\ res.json /\ ~res.success
    /\ res.error = "Failed to fetch tasks"

(***************************************************************************)
(* C18  As claimed: validation checks title, then status, then priority,   *)
(* then dueDate, and reports the first field that is invalid alone: with   *)
(* an invalid title the field is 'title' whatever the others are; with a   *)
(* valid title and an invalid status it is 'status'; with those valid and  *)
(* an invalid priority it is 'priority'; 'dueDate' only when the three are *)
(* valid.  A status or priority is invalid when it is supplied and is no   *)
(* string of its enumeration; a dueDate when it is supplied, is not null   *)
(* and is no string that names an instant.                                 *)
(***************************************************************************)
\* a value supplied for an enumeration field that is none of S
InvalidOption(x, S) == ~IsUndefined(x) /\ ~StringIn(x, S)

\* a dueDate supplied that is no date string
InvalidDueDate(x) == ~IsUndefined(x) /\ ~IsNull(x) /\ ~DateString(x)

\* the first of title, status, priority, dueDate that is invalid, "" if none
FirstInvalidField(body) ==
    IF ~NonBlankString(body.title) THEN "title"
    ELSE IF InvalidOption(body.status, Statuses) THEN "status"
    ELSE IF InvalidOption(body.priority, Priorities) THEN "priority"
    ELSE IF InvalidDueDate(body.dueDate) THEN "dueDate"
    ELSE ""

\* validateTask let the request through when no field is invalid, and
\* answered 400 naming the first invalid field when one is
FirstInvalidReported ==
    IF FirstInvalidField(req.body) = ""
    THEN pc # "done" \/ Len(trace) = 3
    ELSE /\ pc = "done"
         /\ trace = <<"apiLimiter", "validateTask">>
         /\ res.status = 400
         /\ res.field = FirstInvalidField(req.body)

C18_FirstFailureWins ==
    ( /\ Handled(trace)
      /\ req.method \in {"POST", "PATCH"}
      /\ req.body.present )
    => FirstInvalidReported

(***************************************************************************)
(* C18, of the payloads whose status and priority are no falsy value  When *)
(* neither the status nor the priority of the payload is null, false, 0 or *)
(* the empty string, validateTask answers 400 naming the first invalid     *)
(* field of title, status, priority, dueDate, and lets the payload through *)
(* when none is invalid.                                                   *)
(***************************************************************************)
\* a value supplied that a test of its truth takes for an omitted one
Falsy(x) == x \in {Null, Bool(FALSE), Num(0), Str(<<>>)}

C18_FirstFailureOfTruthy ==
    ( /\ Handled(trace)
      /\ req.method \in {"POST", "PATCH"}
      /\ req.body.present
      /\ ~Falsy(req.body.status)
      /\ ~Falsy(req.body.priority) )
    => FirstInvalidReported

(***************************************************************************)
(* C19  GET /tasks with dateFilter=month is answered as the same request   *)
(* without dateFilter is: no 400, the same items, the same total; a        *)
(* dateFilter that is none of today, week, month, overdue is answered 400  *)
(* with validOptions the list today, week, month, overdue (the empty       *)
(* value, which getTasks serves as an omitted filter, apart).  The code    *)
(* lists a fifth option, the array DATE_FILTERS._ALL.                      *)
(***************************************************************************)
\* a request with valid paging and filters whose date filter is month
MonthGet(r) == ValidGet(r) /\ StringIn(r.query.dateFilter, {MONTH})

\* the reads of a request with dateFilter=month return what the reads of
\* the request without dateFilter return from the same table
MonthUnconstrained ==
    LET plain == [req.query EXCEPT !.dateFilter = Undefined]
        where == WhereOf(plain, req.now, req.later)
        limitNum == LimitNum(plain).n
        skip == (PageNum(plain).n - 1) * limitNum
    IN  /\ ~(Rejects("GET") /\ MonthGet(req'))
        /\ (FindManyServed /\ MonthGet(req))
           => PageOf(storeCalls') = FindMany(tasks, where, skip, limitNum)
        /\ (CountServed /\ MonthGet(req))
           => /\ TotalOf(storeCalls') = Count(tasks, where)
              /\ TotalOf(storeCalls') =
                    Cardinality({id \in DOMAIN tasks :
                                    Satisfies(tasks[id], plain, req.now, req.later)})
        /\ (Resumes("GET") /\ MonthGet(req))
           => res' = GetTasksSuccess(plain, PageOf(storeCalls), TotalOf(storeCalls))

C19_MonthAndUnknownFilters ==
    [][ /\ MonthUnconstrained
        /\ ( /\ Rejects("GET") \/ Resumes("GET")
             /\ ValidPaging(req'.query)
             /\ IsUndefined(req'.query.status) \/ StringIn(req'.query.status, Statuses)
             /\ IsUndefined(req'.query.priority)
                \/ StringIn(req'.query.priority, Priorities)
             /\ req'.query.dateFilter.t = "string"
             /\ req'.query.dateFilter.s \notin {<<>>, TODAY, WEEK, MONTH, OVERDUE} )
           => ( /\ res'.status = 400
                /\ res'.validOptions.t = "array"
                /\ Len(res'.validOptions.a) = 4
                /\ \A i \in 1..4 :
                      /\ res'.validOptions.a[i].t = "string"
                      /\ res'.validOptions.a[i].s = <<TODAY, WEEK, MONTH, OVERDUE>>[i] )
      ]_vars

(***************************************************************************)
(* C19, of the month filter  GET /tasks with dateFilter=month is answered  *)
(* 200 with the items and the total of the same request without            *)
(* dateFilter.                                                             *)
(***************************************************************************)
C19_MonthUnconstrained == [][MonthUnconstrained]_vars

(***************************************************************************)
(* C16  When PATCH requests for the one stored task are in flight          *)
(* together, the store serves their updates one at a time, and at every    *)
(* moment each field of the task holds what the last update served that    *)
(* supplied the field wrote (the trimmed title, the status, the priority,  *)
(* the instant or null), or what the task held before when none did; a     *)
(* request with a valid body that the limiters let through is answered 200 *)
(* whatever the others do, or 404 when its identifier names no task (the   *)
(* store raising no unexpected failure on its call).                       *)
(***************************************************************************)
\* the requests whose update of the task id the store has applied, and
\* among them those that supply the field f
ServedOn(id) ==
    {c \in DOMAIN clients : clients[c].outcome = "ok" /\ clients[c].req.id = id}

Writers(id, f) == {c \in ServedOn(id) : ~IsUndefined(clients[c].req.body[f])}

\* the request of W the store served last
LastOf(W) == CHOOSE c \in W : \A d \in W : clients[d].applied <= clients[c].applied

C16_LastWriteWins ==
    /\ 1 \in DOMAIN tasks
    /\ \A c, d \in DOMAIN clients :
          (clients[c].applied > 0 /\ clients[c].applied = clients[d].applied) => c = d
    /\ IF Writers(1, "title") = {} THEN tasks[1].title = SeedTable[1].title
       ELSE IsTrimOf(tasks[1].title, clients[LastOf(Writers(1, "title"))].req.body.title.s)
    /\ IF Writers(1, "status") = {} THEN tasks[1].status = SeedTable[1].status
       ELSE tasks[1].status = clients[LastOf(Writers(1, "status"))].req.body.status.s
    /\ IF Writers(1, "priority") = {} THEN tasks[1].priority = SeedTable[1].priority
       ELSE tasks[1].priority = clients[LastOf(Writers(1, "priority"))].req.body.priority.s
    /\ IF Writers(1, "dueDate") = {} THEN tasks[1].dueDate = SeedTable[1].dueDate
       ELSE LET due == clients[LastOf(Writers(1, "dueDate"))].req.body.dueDate
            IN  IF IsNull(due) THEN IsNull(tasks[1].dueDate)
                ELSE tasks[1].dueDate = NewDate(due)
    /\ \A c \in DOMAIN clients :
          ( /\ clients[c].pc = "done"
            /\ ValidCreateInput(clients[c].req.body)
            /\ clients[c].res.status # 429
            /\ clients[c].outcome # "error" ) =>
             clients[c].res.status = IF clients[c].req.id = 1 THEN 200 ELSE 404

\* two requests for the task were answered 200; the one that arrived with a
\* title and a status was served first, the one with a title, a priority
\* and a null dueDate last: the task has the title of the second and the
\* status of the first
C16_Witness ==
    /\ clients[1].pc = "done" /\ clients[2].pc = "done"
    /\ clients[1].res.status = 200 /\ clients[2].res.status = 200
    /\ clients[1].req.id = 1 /\ clients[2].req.id = 1
    /\ clients[1].applied = 2 /\ clients[2].applied = 1
    /\ clients[2].req.body.status.t = "string"
    /\ clients[1].req.body.status.t = "undefined"
    /\ tasks[1].title = <<"c">>
    /\ tasks[1].status = DONE
    /\ tasks[1].priority = HIGH
    /\ IsNull(tasks[1].dueDate)

(***************************************************************************)
(* C20  Once shutdown is called (SIGTERM, SIGINT, an unhandled rejection,  *)
(* an uncaught exception), the process exits in the end, in every run:     *)
(* also when prisma.$disconnect() never completes and when shutdown is     *)
(* called more than once; and the listener is not closed before the store  *)
(* connection is.  The code arms the forced exit after the await of        *)
(* $disconnect only: a disconnect that stays pending leaves no timer, no   *)
(* server.close and no exit.                                               *)
(***************************************************************************)
C20_ShutdownExits ==
    /\ [](proc.server # "listening" =>
            \E i \in 1..Len(proc.calls) : proc.calls[i].pc = "armed")
    /\ (proc.calls # <<>>) ~> (proc.exit # "running")

(***************************************************************************)
(* C20, past the disconnect  Once the $disconnect of a call of shutdown    *)
(* has resolved, the process exits: by the callback of server.close, or by *)
(* the forced exit when a connection stays open.                           *)
(***************************************************************************)
C20_ExitsOnceDisconnected ==
    (\E i \in 1..Len(proc.calls) : proc.calls[i].pc = "armed") ~> (proc.exit # "running")

(***************************************************************************)
(* C21  In every GET /tasks response the page and the total describe one   *)
(* store state, also when create, update or delete requests of other       *)
(* clients are served between the page read and the count read: the number *)
(* of returned items never exceeds total, never exceeds                    *)
(* max(0, total - (page-1)*limit), and both reads use the same filter      *)
(* predicate (for overdue, the same cutoff instant).  The code calls       *)
(* findMany and count as two calls of the store, with no transaction       *)
(* around them: a delete served between them leaves a page of one item     *)
(* beside a total of 0.                                                    *)
(***************************************************************************)
\* the request is a GET that was answered 200
PageSent == pc = "done" /\ req.method = "GET" /\ res.status = 200

\* the items of a response are no more than its total, and no more than
\* what the total leaves after the pages before
WithinTotal(response, query) ==
    LET items == Len(response.data)
        total == response.pagination[1].total
        skipped == (PageNum(query).n - 1) * LimitNum(query).n
    IN  /\ items <= total
        /\ items <= Max(0, total - skipped)

C21_PageAndTotalOfOneState == PageSent => WithinTotal(res, req.query)

(***************************************************************************)
(* C21, the filter  The two reads of a GET are served with one where       *)
(* clause, the one built from the query and the two instants of the        *)
(* request: for overdue, both compare with the same cutoff.                *)
(***************************************************************************)
C21_SameFilter ==
    [][ LET where == WhereOf(req.query, req.now, req.later)
            limitNum == LimitNum(req.query).n
            skip == (PageNum(req.query).n - 1) * limitNum
        IN  /\ FindManyServed =>
                  PageOf(storeCalls') = FindMany(tasks, where, skip, limitNum)
            /\ CountServed => TotalOf(storeCalls') = Count(tasks, where) ]_vars

====
